---- MODULE Spec2Model ----
(***************************************************************************)
(* A model of rdma-lib: the connection and resource engine of common.c     *)
(* (init_resources, cleanup_resources, connect_qps, post_operation,        *)
(* post_receive, wait_completion) and the mode drivers built on it         *)
(* (send/receive, write, read, lambda).                                    *)
(*                                                                         *)
(* Eight specifications share the module:                                  *)
(*   SpecRes        one connection context driven through init_resources,  *)
(*                  setup_socket and cleanup_resources;                    *)
(*   SpecPost       post_operation applied to arbitrary arguments;         *)
(*   Spec           a client and a server process of one mode: each sets   *)
(*                  up the session of run_client or run_server, then       *)
(*                  calls its mode driver, which sets up a session of its  *)
(*                  own and runs its loop.  The two are joined by the      *)
(*                  control socket and by the reliable-connection          *)
(*                  transport of the two queue pairs.  Calls may fail, and *)
(*                  SIGINT or SIGTERM may arrive at any moment;            *)
(*   SpecHandshake  connect_qps of the two processes with no failure,      *)
(*                  under fairness;                                        *)
(*   SpecSrLive     the two send/receive loops on an established           *)
(*                  connection with no failure, under fairness;            *)
(*   SpecPeer       the lambda server or the lambda client, on an          *)
(*                  established connection to a peer that may send any     *)
(*                  metadata record and any result record;                 *)
(*   SpecReadLines  the read server and the read client on an established  *)
(*                  connection, the lines of the client's input kept;      *)
(*   SpecSessions   the two sessions of a run set up one after the other,  *)
(*                  the server started first, with no failure, under       *)
(*                  fairness.                                              *)
(***************************************************************************)
EXTENDS Integers, Sequences, FiniteSets, TLC

(***************************************************************************)
(* Bounds.  The buffer is MAX_BUFFER_SIZE cells long (4096 bytes in        *)
(* common.h) and the path MTU is PATH_MTU cells (IBV_MTU_1024): one cell   *)
(* stands for a 1024-byte stretch of the buffer, so the source's ratio of  *)
(* four packets per full buffer is kept.                                   *)
(***************************************************************************)
MAX_BUFFER_SIZE == 4

PATH_MTU == 1

MaxHandle == 2

MaxCleanupCalls == 2

\* Requests an arbitrary peer puts to the lambda server in one run.
MaxRequests == 1

NULL == 0

RDMA_SUCCESS == "RDMA_SUCCESS"

RDMA_ERR_DEVICE == "RDMA_ERR_DEVICE"

RDMA_ERR_RESOURCE == "RDMA_ERR_RESOURCE"

VARIABLES
    \* ---- one connection context (SpecRes) ----
    ctx,        \* the connection context (struct config_t)
    phase,         \* "fresh", "failed", "inited", "connected"
    live,          \* resources acquired and not yet released
    released,      \* every release call made so far, in order
    init_call,     \* the last init_resources call: its failing step and outcome
    last_cleanup,  \* the last cleanup_resources call: its argument, its releases
                   \* and how many calls the context has now been through
    n_cleanup,     \* cleanup_resources calls made from outside init_resources
    \* ---- two processes and the transport between them (Spec, SpecPost) ----
    mode,          \* the mode given on the command line of both processes
    pc,            \* pc[r]: where process r is in its program
    exit_code,     \* exit_code[r]: "none" while r runs, else its exit status
    qp,            \* qp[r]: the queue pair: state, access flags, transitions made
    mr_access,     \* mr_access[r]: access flags of the registered buffer
    buf,           \* buf[r]: the registered buffer, MAX_BUFFER_SIZE cells
    sq,            \* sq[r]: send work requests posted and not yet completed
    rq,            \* rq[r]: receive work requests posted and not yet consumed
    cq,            \* cq[r]: completions not yet polled
    chan,          \* chan[r]: handshake records on the control socket, towards r
    loc,           \* loc[r]: the local variables of r's functions
    hist           \* hist[r]: what the run has done so far (history)

resVars == <<ctx, phase, live, released, init_call, last_cleanup, n_cleanup>>

dataVars == <<mode, pc, exit_code, qp, mr_access, buf, sq, rq, cq, chan, loc, hist>>

vars == <<resVars, dataVars>>

(***************************************************************************)
(* Part 1.  The resource manager.                                          *)
(***************************************************************************)

\* struct config_t, zero-initialised (`struct config_t config = {}`).
ZeroConfig ==
    [context |-> NULL, pd |-> NULL, cq |-> NULL, qp |-> NULL,
     mr |-> NULL, buf |-> NULL, sock_fd |-> 0]

\* A NULL `struct config_t *`.
NULL_CONFIG == [null |-> TRUE]

\* The handles the allocation calls may return, and the descriptors
\* socket()/accept() may return with stdin, stdout and stderr open.
Handles == 1 .. MaxHandle

SockFds == 3 .. (2 + MaxHandle)

\* One release call: the library function's resource kind and its argument.
Rel(kind, handle) == <<kind, handle>>

NoEffect(config) == [cfg |-> config, rel |-> <<>>]

cleanup_qp(config) ==
    IF config.qp # NULL
    THEN [cfg |-> [config EXCEPT !.qp = NULL], rel |-> <<Rel("qp", config.qp)>>]
    ELSE NoEffect(config)

\* A plausible slip: the completion queue destroyed before the memory
\* region and the buffer are released.
cleanup_resources_cq_first(config) ==
    IF config = NULL_CONFIG THEN NoEffect(config)
    ELSE LET q == IF config.qp # NULL THEN cleanup_qp(config) ELSE NoEffect(config)
         IN [cfg |-> q.cfg,
             rel |-> q.rel
                 \o (IF config.cq # NULL THEN <<Rel("cq", config.cq)>> ELSE <<>>)
                 \o (IF config.mr # NULL THEN <<Rel("mr", config.mr)>> ELSE <<>>)
                 \o (IF config.buf # NULL THEN <<Rel("buf", config.buf)>> ELSE <<>>)
                 \o (IF config.pd # NULL THEN <<Rel("pd", config.pd)>> ELSE <<>>)
                 \o (IF config.context # NULL
                     THEN <<Rel("context", config.context)>> ELSE <<>>)
                 \o (IF config.sock_fd # 0
                     THEN <<Rel("sock_fd", config.sock_fd)>> ELSE <<>>)]

\* cleanup_resources: the release calls it makes, in order, and the context
\* it leaves.  Only cleanup_qp resets its field; the other fields keep their
\* handles.
cleanup_resources(config) ==
    IF config = NULL_CONFIG THEN NoEffect(config)
    ELSE LET q == IF config.qp # NULL THEN cleanup_qp(config) ELSE NoEffect(config)
         IN [cfg |-> q.cfg,
             rel |-> q.rel
                 \o (IF config.mr # NULL THEN <<Rel("mr", config.mr)>> ELSE <<>>)
                 \o (IF config.buf # NULL THEN <<Rel("buf", config.buf)>> ELSE <<>>)
                 \o (IF config.cq # NULL THEN <<Rel("cq", config.cq)>> ELSE <<>>)
                 \o (IF config.pd # NULL THEN <<Rel("pd", config.pd)>> ELSE <<>>)
                 \o (IF config.context # NULL
                     THEN <<Rel("context", config.context)>> ELSE <<>>)
                 \o (IF config.sock_fd # 0
                     THEN <<Rel("sock_fd", config.sock_fd)>> ELSE <<>>)]

\* The steps of init_resources that can fail, in program order.
InitSteps ==
    <<"get_device_list", "first_device", "open_device", "alloc_pd", "create_cq",
      "create_qp", "malloc", "reg_mr", "query_gid">>

InitFailures == {InitSteps[i] : i \in 1 .. Len(InitSteps)} \cup {"none"}

DevList == Rel("dev_list", 1)

\* The outcome of init_resources: the context it leaves, its return value,
\* the resources it acquired, the release calls it made, and the context it
\* handed to cleanup_resources (cin, empty when it made no such call).
InitResult(config, ret, alloc, rel, cin) ==
    [cfg |-> config, ret |-> ret, alloc |-> alloc, rel |-> rel, cin |-> cin]

\* A plausible slip: the failure path returns without the teardown.
InitUnwindNoCleanup(config, err, alloc) ==
    InitResult(config, err, alloc, <<DevList>>, <<>>)

\* The failure path shared by the steps after the device is open:
\* cleanup_resources(config); ibv_free_device_list(dev_list); return err.
InitUnwind(config, err, alloc) ==
    LET cl == cleanup_resources(config)
    IN InitResult(cl.cfg, err, alloc, cl.rel \o <<DevList>>, <<config>>)

\* init_resources(config, mode), with the step `fail` failing ("none": no
\* step fails) and h[k] the handle the allocation of kind k returns.
init_resources(config, fail, h) ==
    IF config = NULL_CONFIG
    THEN InitResult(config, RDMA_ERR_RESOURCE, <<>>, <<>>, <<>>)
    ELSE IF fail = "get_device_list"
    THEN InitResult(config, RDMA_ERR_DEVICE, <<>>, <<>>, <<>>)
    ELSE IF fail = "first_device"
    THEN InitResult(config, RDMA_ERR_DEVICE, <<DevList>>, <<DevList>>, <<>>)
    ELSE IF fail = "open_device"
    THEN InitResult(config, RDMA_ERR_DEVICE, <<DevList>>, <<DevList>>, <<>>)
    ELSE
    LET c1 == [config EXCEPT !.context = h.context]
        a1 == <<DevList, Rel("context", h.context)>>
    IN  IF fail = "alloc_pd" THEN InitUnwind(c1, RDMA_ERR_RESOURCE, a1)
    ELSE
    LET c2 == [c1 EXCEPT !.pd = h.pd]
        a2 == Append(a1, Rel("pd", h.pd))
    IN  IF fail = "create_cq" THEN InitUnwind(c2, RDMA_ERR_RESOURCE, a2)
    ELSE
    LET c3 == [c2 EXCEPT !.cq = h.cq]
        a3 == Append(a2, Rel("cq", h.cq))
    IN  IF fail = "create_qp" THEN InitUnwind(c3, RDMA_ERR_RESOURCE, a3)
    ELSE
    LET c4 == [c3 EXCEPT !.qp = h.qp]
        a4 == Append(a3, Rel("qp", h.qp))
    IN  IF fail = "malloc" THEN InitUnwind(c4, RDMA_ERR_RESOURCE, a4)
    ELSE
    LET c5 == [c4 EXCEPT !.buf = h.buf]
        a5 == Append(a4, Rel("buf", h.buf))
    IN  IF fail = "reg_mr" THEN InitUnwind(c5, RDMA_ERR_RESOURCE, a5)
    ELSE
    LET c6 == [c5 EXCEPT !.mr = h.mr]
        a6 == Append(a5, Rel("mr", h.mr))
    IN  IF fail = "query_gid" THEN InitUnwind(c6, RDMA_ERR_DEVICE, a6)
    ELSE InitResult(c6, RDMA_SUCCESS, a6, <<DevList>>, <<>>)

ResourceKinds == {"context", "pd", "cq", "qp", "buf", "mr"}

SeqToSet(s) == {s[i] : i \in 1 .. Len(s)}

Count(x, s) == Cardinality({i \in 1 .. Len(s) : s[i] = x})

(***************************************************************************)
(* Part 2.  Queue pairs, the operation executor and the transport.         *)
(***************************************************************************)

Roles == {"server", "client"}

Peer(r) == IF r = "server" THEN "client" ELSE "server"

Modes == {"MODE_SEND_RECV", "MODE_WRITE", "MODE_READ", "MODE_LAMBDA"}

\* The mode each driver passes to setup_rdma_connection: the lambda drivers
\* pass MODE_WRITE, the others their own mode.
DriverMode(m) == IF m = "MODE_LAMBDA" THEN "MODE_WRITE" ELSE m

\* init_resources: the access flags the buffer is registered with.
MrAccessFlags(m) ==
    {"LOCAL_WRITE"} \cup
        CASE m = "MODE_WRITE" -> {"REMOTE_WRITE"}
          [] m = "MODE_READ" -> {"REMOTE_READ"}
          [] m = "MODE_SEND_RECV" -> {}
          [] m = "MODE_LAMBDA" -> {"REMOTE_WRITE"}

\* connect_qps: the access flags given to modify_qp_to_init.
QpAccessFlags(m) ==
    {"LOCAL_WRITE"} \cup
        CASE m = "MODE_WRITE" -> {"REMOTE_WRITE"}
          [] m = "MODE_READ" -> {"REMOTE_READ"}
          [] OTHER -> {}

\* config->buf as an address, and config->mr->rkey.
BufAddr(r) == IF r = "server" THEN 4096 ELSE 8192

Rkey(r) == IF r = "server" THEN 11 ELSE 22

QpNum(r) == IF r = "server" THEN 1 ELSE 2

\* struct qp_info_t as connect_qps fills it (the GID follows the QP number).
LocalQpInfo(r) == [qp_num |-> QpNum(r), addr |-> BufAddr(r), rkey |-> Rkey(r)]

NoQpInfo == [qp_num |-> 0, addr |-> 0, rkey |-> 0]

\* Buffer cells.  A cell is a tagged tuple: <<"u">> is memory never written
\* (malloc'd, indeterminate), <<"d", x>> a stretch of message text.
Uninit == <<"u">>

FreshBuffer == [i \in 1 .. MAX_BUFFER_SIZE |-> Uninit]

Min(a, b) == IF a < b THEN a ELSE b

\* memcpy(dst, src, n) on cell sequences; cells beyond the end of src read
\* as indeterminate.
memcpy(dst, src, n) ==
    [i \in 1 .. Len(dst) |->
        IF i <= n THEN (IF i <= Len(src) THEN src[i] ELSE Uninit) ELSE dst[i]]

\* htonl / ntohl on a little-endian host: the four bytes of a 32-bit value
\* reversed (the values converted here are lengths of at most
\* MAX_BUFFER_SIZE and their images, all inside 32 bits).
bswap32(x) ==
    LET v == x
        b0 == v % 256
        b1 == (v \div 256) % 256
        b2 == (v \div 65536) % 256
        b3 == (v \div 16777216) % 256
    IN  b0 * 16777216 + b1 * 65536 + b2 * 256 + b3

htonl(x) == bswap32(x)

ntohl(x) == bswap32(x)

\* A send work request as post_operation builds it; sent counts the cells
\* the transport has moved so far.
SendWr(opcode, length, imm_data, remote_addr, rkey) ==
    [opcode |-> opcode, length |-> length, imm_data |-> imm_data,
     remote_addr |-> remote_addr, rkey |-> rkey, sent |-> 0]

\* The part of a context post_operation works on: the buffer and the send
\* queue of the queue pair.  data = <<>> stands for a NULL data pointer.
Endpoint(b, q) == [buf |-> b, sq |-> q]

\* post_operation past its guard: send and write copy data into the buffer
\* when data is not NULL; one signaled work request over the first length
\* bytes of the buffer is posted, a write carrying htonl(length) as
\* immediate value, write and read the peer's address and key.
PostRequest(config, op, data, remote_info, length) ==
    CASE op = "OP_SEND" ->
            [buf |-> IF data # <<>> THEN memcpy(config.buf, data, length)
                     ELSE config.buf,
             sq |-> Append(config.sq, SendWr("IBV_WR_SEND", length, 0, 0, 0))]
      [] op = "OP_WRITE" ->
            [buf |-> IF data # <<>> THEN memcpy(config.buf, data, length)
                     ELSE config.buf,
             sq |-> Append(config.sq,
                           SendWr("IBV_WR_RDMA_WRITE_WITH_IMM", length,
                                  htonl(length), remote_info.addr,
                                  remote_info.rkey))]
      [] op = "OP_READ" ->
            [buf |-> config.buf,
             sq |-> Append(config.sq,
                           SendWr("IBV_WR_RDMA_READ", length, 0,
                                  remote_info.addr, remote_info.rkey))]

\* A plausible slip: the length guard missing.
post_operation_unguarded(config, op, data, remote_info, length) ==
    IF config = NULL_CONFIG THEN config
    ELSE PostRequest(config, op, data, remote_info, length)

\* post_operation: returns (void) without posting when config is NULL or
\* length exceeds MAX_BUFFER_SIZE.
post_operation(config, op, data, remote_info, length) ==
    IF config = NULL_CONFIG \/ length > MAX_BUFFER_SIZE THEN config
    ELSE PostRequest(config, op, data, remote_info, length)

\* What the caller of post_operation gets back: the function is void.
PostOperationReturn(config, length) == "void"

\* A completion entry (struct ibv_wc).
Wc(status, opcode, imm_data, byte_len) ==
    [status |-> status, opcode |-> opcode, imm_data |-> imm_data,
     byte_len |-> byte_len]

NoWc == Wc("none", "none", 0, 0)

IBV_WC_SUCCESS == "IBV_WC_SUCCESS"

\* The three transitions of connect_qps, in order.
AllTransitions == <<"INIT", "RTR", "RTS">>

FreshQp == [state |-> "RESET", access |-> {}, transitions |-> <<>>]

\* The cells of the next packet of work request w, and whether it is the
\* last packet of the message (a zero-length message is one empty packet).
PktLen(w) == Min(PATH_MTU, w.length - w.sent)

IsLastPkt(w) == w.sent + PktLen(w) >= w.length

\* The cells i of target buffer b the packet of w lands in, at byte offset
\* off of the buffer, copied from the source buffer at offset from.
PlacePkt(b, off, src, from, n) ==
    [i \in 1 .. Len(b) |->
        IF i > off /\ i <= off + n THEN src[from + (i - off)] ELSE b[i]]

(***************************************************************************)
(* Part 3.  The two processes: connection setup, the mode drivers and the  *)
(* reliable-connection transport between the two queue pairs.              *)
(***************************************************************************)

\* Lines read from stdin by a client before end of file.
MaxLines == 2

\* The k-th line read from stdin, n cells long with its terminator
\* (strlen + 1 is between 1 and MAX_BUFFER_SIZE): cell i of it is
\* <<"d", k, i>>, so that text of different lines and places differs.
Line(k, n) == [i \in 1 .. n |-> <<"d", k, i>>]

\* A plausible slip: fgets taking MAX_BUFFER_SIZE characters of a line.
LinesOneMore(k) == {Line(k, n) : n \in 1 .. MAX_BUFFER_SIZE + 1}

\* fgets(input, MAX_BUFFER_SIZE, stdin) and the empty line skipped: the
\* lines a client posts.
Lines(k) == {Line(k, n) : n \in 1 .. MAX_BUFFER_SIZE}

\* struct lambda_metadata (the function name left out).
Meta(code_size, input_size, entry_offset) ==
    [code_size |-> code_size, input_size |-> input_size,
     entry_offset |-> entry_offset]

NoMeta == Meta(0, 0, 0)

\* struct lambda_memory_regions before setup_lambda_regions has run (the
\* code region and the three memory registrations left out).
NoRegions == [set |-> FALSE, input_region |-> 0, output_region |-> 0]

\* setup_socket's retry loop, outside it: retry_count and connected, and two
\* tallies, the connect calls made and the sleeps taken.
NoSock == [retry_count |-> 0, connected |-> FALSE, attempts |-> 0, slept |-> 0]

\* The locals of a run function and of the driver it calls (with the
\* session being set up or used: "run" for the one run_server or run_client
\* sets up for itself, "driver" for the one the mode's driver sets up; with connect_qps's remote_qp_info, the peer's
\* record that modify_qp_to_rtr puts into the queue pair, and the retry
\* loop's variables): the last completion polled, the peer's record
\* from the handshake, the lines read so far and, in the lambda server,
\* meta_storage, client_info, the code region, the function's result and
\* the number of output bytes put behind it; in the read client, the last
\* line of input as sscanf took it).
InitialLoc ==
    [wc |-> NoWc, remote_info |-> NoQpInfo, n_in |-> 0,
     meta |-> NoMeta, client_info |-> NoQpInfo, code |-> FreshBuffer,
     result |-> Uninit, bytes_to_copy |-> 0, regions |-> NoRegions,
     line |-> [parsed |-> FALSE, start |-> 0, end |-> 0],
     remote_qp_info |-> NoQpInfo, sock |-> NoSock, session |-> "run"]

\* No read posted yet.  Of a read are kept its range, whether the server
\* had stored its text when the read was posted, the bytes of the range in
\* the server's buffer at that time and when the completion was polled,
\* and the bytes the client then found in its own buffer.
NoRead ==
    [made |-> FALSE, start |-> 0, end |-> 0, stored |-> FALSE,
     at_post |-> <<>>, at_done |-> <<>>, got |-> <<>>]

\* No direct call of post_operation made yet.
NoPostCall ==
    [made |-> FALSE, n |-> 0, length |-> 0, ret |-> "none",
     before |-> Endpoint(<<>>, <<>>), qp |-> FreshQp]

\* No signal caught yet.  Of a signal are kept the handler that ran, the
\* config_t of the session that was active, and the releases the handler
\* made.
NoSignal ==
    [caught |-> FALSE, handler |-> "none", session |-> ZeroConfig,
     released |-> <<>>]

InitialHist ==
    [early_post |-> FALSE,      \* a post before the third transition was made
     failed_wc |-> FALSE,       \* a non-success completion has been polled
     post_after_fail |-> FALSE, \* a post after such a completion
     written |-> <<>>,          \* the messages written, in order (write client)
     n_obs |-> 0,               \* successful completions handled (write server)
     obs |-> [len |-> 0, data |-> <<>>],  \* what the server then read
     invoked |-> {},            \* the metadata the received code was invoked with
     teardown |-> <<>>,         \* the sessions torn down by the run function's return path
     dropped |-> FALSE,         \* a post_operation call of a driver posted nothing
     rejected |-> FALSE,        \* a request failed validation (lambda server)
     post |-> NoPostCall,       \* the last direct call of post_operation
     rd |-> NoRead,             \* the last read posted (read client)
     signal |-> NoSignal,       \* the signal caught, if one was
     steps |-> <<>>,            \* the steps of the lambda loops, in order
     short_transfer |-> FALSE]  \* a handshake read or write came back short

DataInit(m) ==
    /\ mode = m
    /\ pc = [r \in Roles |-> "init_resources"]
    /\ exit_code = [r \in Roles |-> "none"]
    /\ qp = [r \in Roles |-> FreshQp]
    /\ mr_access = [r \in Roles |-> {}]
    /\ buf = [r \in Roles |-> FreshBuffer]
    /\ sq = [r \in Roles |-> <<>>]
    /\ rq = [r \in Roles |-> 0]
    /\ cq = [r \in Roles |-> <<>>]
    /\ chan = [r \in Roles |-> <<>>]
    /\ loc = [r \in Roles |-> InitialLoc]
    /\ hist = [r \in Roles |-> InitialHist]

Goto(r, label) == pc' = [pc EXCEPT ![r] = label]

\* exit(status), from die (status 1) or from main's return.
Exit(r, status) ==
    /\ pc' = [pc EXCEPT ![r] = "exited"]
    /\ exit_code' = [exit_code EXCEPT ![r] = status]

die(r) == Exit(r, "1")

\* The driver returns to run_server or run_client: the driver's
\* cleanup_resources on its own config_t, then the run function's on the
\* config_t of its session; main returns the status.  The history goes on
\* from h.
Return(r, status, h) ==
    /\ Exit(r, status)
    /\ hist' = [h EXCEPT ![r].teardown = <<"driver", "run">>]

\* ---------------------------------------------------------------- setup

\* The first label of each driver's loop, entered when
\* setup_rdma_connection has returned RDMA_SUCCESS.
DriverEntry(m, r) ==
    CASE m = "MODE_WRITE" -> IF r = "server" THEN "rw_post_receive" ELSE "rw_fgets"
      [] m = "MODE_SEND_RECV" -> IF r = "server" THEN "sr_post_receive" ELSE "sr_fgets"
      [] m = "MODE_READ" -> "rd_fgets"
      [] m = "MODE_LAMBDA" -> "lambda_setup_regions"

\* The mode setup_rdma_connection is called with: run_server and run_client
\* pass the mode of the command line, the drivers their own.
SessionMode(r) ==
    IF loc[r].session = "run" THEN mode ELSE DriverMode(mode)

\* setup_rdma_connection: init_resources; on failure the caller returns -1
\* and main returns it (setup_lambda_qps of the lambda server: exit(1)).
SetupInitResourcesWith(r, failures) ==
    /\ pc[r] = "init_resources"
    /\ \E fail \in failures :
        LET res == init_resources(ZeroConfig, fail, [k \in ResourceKinds |-> 1])
        IN  IF res.ret = RDMA_SUCCESS
            THEN /\ Goto(r, "setup_socket")
                 /\ mr_access' = [mr_access EXCEPT ![r] = MrAccessFlags(SessionMode(r))]
                 /\ UNCHANGED exit_code
            ELSE /\ Exit(r, IF /\ mode = "MODE_LAMBDA"
                               /\ r = "server"
                               /\ loc[r].session = "driver"
                            THEN "1" ELSE "255")
                 /\ UNCHANGED mr_access
    /\ hist' = IF /\ pc[r] = "init_resources"
                  /\ loc[r].session = "driver"
                  /\ ~(mode = "MODE_LAMBDA" /\ r = "server")
                  /\ pc'[r] = "exited"
               THEN [hist EXCEPT ![r].teardown = <<"run">>]
               ELSE hist
    /\ UNCHANGED <<resVars, mode, qp, buf, sq, rq, cq, chan, loc>>

SetupInitResources(r) == SetupInitResourcesWith(r, InitFailures)

\* setup_socket, server: socket, bind, listen; then accept blocks.
ServerListen ==
    /\ pc["server"] = "setup_socket"
    /\ Goto("server", "accept")
    /\ UNCHANGED <<resVars, mode, exit_code, qp, mr_access, buf, sq, rq, cq, chan, loc, hist>>

\* int retry_count = 3.
RetryCount == 3

\* while (retry_count-- > 0 && !connected): the test, and the variables
\* after it.
LoopCondition(s) == s.retry_count > 0 /\ ~s.connected

AfterCondition(s) == [s EXCEPT !.retry_count = @ - 1]

EnterConnectLoop ==
    AfterCondition([NoSock EXCEPT !.retry_count = RetryCount])

\* A plausible slip: the backoff after every failed attempt.
BackoffDueAlways(s) == TRUE

\* if (retry_count > 0): the backoff is due.
BackoffDue(s) == s.retry_count > 0

\* The body of the loop around one connect call that returns 0 (ok) or
\* fails: with sleeping the client is to sleep, otherwise the loop is left.
ConnectPass(s, ok) ==
    LET called == [s EXCEPT !.attempts = @ + 1]
    IN  IF ok
        THEN [retry_count |-> called.retry_count, connected |-> TRUE,
              attempts |-> called.attempts, slept |-> called.slept,
              sleeping |-> FALSE]
        ELSE IF BackoffDue(called)
        THEN [retry_count |-> called.retry_count, connected |-> FALSE,
              attempts |-> called.attempts, slept |-> called.slept,
              sleeping |-> TRUE]
        ELSE [retry_count |-> called.retry_count - 1, connected |-> FALSE,
              attempts |-> called.attempts, slept |-> called.slept,
              sleeping |-> FALSE]

\* setup_socket, client: socket, gethostbyname and the two setsockopt
\* succeed; retry_count = 3, connected = 0.
ClientSocket ==
    /\ pc["client"] = "setup_socket"
    /\ loc' = [loc EXCEPT !["client"].sock = EnterConnectLoop]
    /\ Goto("client", "connect")
    /\ UNCHANGED <<resVars, mode, exit_code, qp, mr_access, buf, sq, rq, cq, chan, hist>>

\* One pass of the retry loop in which connect returns 0: the server is
\* listening, and its accept returns.  The loop's variables end with the
\* function.
ClientConnect ==
    /\ pc["client"] = "connect"
    /\ pc["server"] = "accept"
    /\ LET s == ConnectPass(loc["client"].sock, TRUE)
       IN  /\ s.connected
           /\ loc' = [loc EXCEPT !["client"].sock = NoSock]
    /\ pc' = [r \in Roles |-> "exchange_first"]
    /\ UNCHANGED <<resVars, mode, exit_code, qp, mr_access, buf, sq, rq, cq, chan, hist>>

\* One pass of the retry loop in which connect fails: with attempts left
\* the client sleeps, with none left it closes the socket and dies.
ConnectFailed ==
    LET s == ConnectPass(loc["client"].sock, FALSE)
    IN  /\ loc' = [loc EXCEPT !["client"].sock =
                           [retry_count |-> s.retry_count,
                            connected |-> s.connected,
                            attempts |-> s.attempts, slept |-> s.slept]]
        /\ IF s.sleeping
           THEN Goto("client", "connect_sleep") /\ UNCHANGED exit_code
           ELSE die("client")

\* connect is refused: no server is listening.
ClientConnectRefused ==
    /\ pc["client"] = "connect"
    /\ pc["server"] # "accept"
    /\ ConnectFailed
    /\ UNCHANGED <<resVars, mode, qp, mr_access, buf, sq, rq, cq, chan, hist>>

\* connect fails for another reason (unreachable, timed out).
ClientConnectFails ==
    /\ pc["client"] = "connect"
    /\ ConnectFailed
    /\ UNCHANGED <<resVars, mode, qp, mr_access, buf, sq, rq, cq, chan, hist>>

\* sleep(1) returns and the loop's condition is tested: the next pass
\* begins, or the loop is left with connected = 0: close, die.
ClientSleep ==
    /\ pc["client"] = "connect_sleep"
    /\ LET s == [loc["client"].sock EXCEPT !.slept = @ + 1]
       IN  /\ loc' = [loc EXCEPT !["client"].sock = AfterCondition(s)]
           /\ IF LoopCondition(s)
              THEN Goto("client", "connect") /\ UNCHANGED exit_code
              ELSE die("client")
    /\ UNCHANGED <<resVars, mode, qp, mr_access, buf, sq, rq, cq, chan, hist>>

\* setup_socket: socket, gethostbyname, setsockopt, bind or accept fails:
\* die.
SetupSocketFails(r) ==
    /\ pc[r] \in {"setup_socket", "accept"}
    /\ r = "client" => pc[r] = "setup_socket"
    /\ die(r)
    /\ UNCHANGED <<resVars, mode, qp, mr_access, buf, sq, rq, cq, chan, loc, hist>>

\* exchange_qp_info: the order of the two calls, by role.
ExchangeOrderReadFirst(r) == <<"read", "write">>

ExchangeOrder(r) ==
    IF r = "client" THEN <<"write", "read">> ELSE <<"read", "write">>

ExchangeCall(r) ==
    IF pc[r] = "exchange_first" THEN ExchangeOrder(r)[1]
    ELSE IF pc[r] = "exchange_second" THEN ExchangeOrder(r)[2]
    ELSE "none"

AfterExchangeCall(r) ==
    IF pc[r] = "exchange_first" THEN "exchange_second" ELSE "modify_qp_to_init"

\* exchange_qp_info: write of local_info to the socket.
ExchangeWrite(r) ==
    /\ ExchangeCall(r) = "write"
    /\ chan' = [chan EXCEPT ![Peer(r)] = Append(@, LocalQpInfo(r))]
    /\ Goto(r, AfterExchangeCall(r))
    /\ UNCHANGED <<resVars, mode, exit_code, qp, mr_access, buf, sq, rq, cq, loc, hist>>

\* exchange_qp_info: read of remote_info from the socket, into connect_qps's
\* remote_qp_info; connect_qps copies it to the caller's remote_info (the
\* server passes NULL).
ExchangeRead(r) ==
    /\ ExchangeCall(r) = "read"
    /\ chan[r] # <<>>
    /\ chan' = [chan EXCEPT ![r] = Tail(@)]
    /\ loc' = [loc EXCEPT ![r].remote_qp_info = Head(chan[r]),
                          ![r].remote_info =
                              IF r = "client" THEN Head(chan[r]) ELSE @]
    /\ Goto(r, AfterExchangeCall(r))
    /\ UNCHANGED <<resVars, mode, exit_code, qp, mr_access, buf, sq, rq, cq, hist>>

\* sizeof(struct qp_info_t), counted in the fields the model keeps of it
\* (qp_num, addr, rkey).
QpInfoSize == 3

\* What read or write returns when it does not transfer the whole record:
\* -1 (an error), 0 (end of file) or a part of the record.
ShortCounts == -1 .. QpInfoSize - 1

\* The first n fields of a record, the rest of the memory as it was (zero).
Truncated(info, n) ==
    [qp_num |-> IF n >= 1 THEN info.qp_num ELSE 0,
     addr |-> IF n >= 2 THEN info.addr ELSE 0,
     rkey |-> IF n >= 3 THEN info.rkey ELSE 0]

\* A test that takes every count but an error for a transfer.
TransferCompleteUnlessError(n) == n >= 0

\* exchange_qp_info: the test of what read and write return (negated: the
\* exchange goes on).
TransferComplete(n) == ~(n # QpInfoSize)

\* exchange_qp_info: a read or write that comes back short: close, die.
\* (Were the count taken for a transfer, the exchange would go on with the
\* part of the record that came.)
ExchangeFails(r) ==
    /\ pc[r] \in {"exchange_first", "exchange_second"}
    /\ \E n \in ShortCounts :
        /\ ExchangeCall(r) = "read" /\ n > 0 => chan[r] # <<>>
        /\ IF ~TransferComplete(n)
           THEN /\ die(r)
                /\ hist' = [hist EXCEPT ![r].short_transfer = TRUE]
                /\ UNCHANGED <<chan, loc>>
           ELSE /\ Goto(r, AfterExchangeCall(r))
                /\ UNCHANGED exit_code
                /\ hist' = [hist EXCEPT ![r].short_transfer = TRUE]
                /\ IF ExchangeCall(r) = "write"
                   THEN /\ chan' = [chan EXCEPT ![Peer(r)] =
                                       Append(@, Truncated(LocalQpInfo(r), n))]
                        /\ UNCHANGED loc
                   ELSE /\ chan' = [chan EXCEPT ![r] =
                                       IF n > 0 THEN Tail(@) ELSE @]
                        /\ loc' = [loc EXCEPT ![r].remote_qp_info =
                                      IF n > 0 THEN Truncated(Head(chan[r]), n)
                                      ELSE @]
    /\ UNCHANGED <<resVars, mode, qp, mr_access, buf, sq, rq, cq>>

\* The three transitions, as changes of the queue pair.
modify_qp_to_init(q, access_flags) ==
    [q EXCEPT !.state = "INIT", !.access = access_flags,
              !.transitions = Append(@, "INIT")]

modify_qp_to_rtr(q) == [q EXCEPT !.state = "RTR", !.transitions = Append(@, "RTR")]

\* A plausible slip: the last transition left out.
modify_qp_to_rts_skipped(q) == q

modify_qp_to_rts(q) == [q EXCEPT !.state = "RTS", !.transitions = Append(@, "RTS")]

\* connect_qps, after the exchange: the three transitions in order; the
\* driver's loop is entered when the third has returned.
ConnectQpsInit(r) ==
    /\ pc[r] = "modify_qp_to_init"
    /\ qp' = [qp EXCEPT ![r] = modify_qp_to_init(@, QpAccessFlags(SessionMode(r)))]
    /\ Goto(r, "modify_qp_to_rtr")
    /\ UNCHANGED <<resVars, mode, exit_code, mr_access, buf, sq, rq, cq, chan, loc, hist>>

ConnectQpsRtr(r) ==
    /\ pc[r] = "modify_qp_to_rtr"
    /\ qp' = [qp EXCEPT ![r] = modify_qp_to_rtr(@)]
    /\ Goto(r, "modify_qp_to_rts")
    /\ UNCHANGED <<resVars, mode, exit_code, mr_access, buf, sq, rq, cq, chan, loc, hist>>

ConnectQpsRts(r) ==
    /\ pc[r] = "modify_qp_to_rts"
    /\ qp' = [qp EXCEPT ![r] = modify_qp_to_rts(@)]
    /\ Goto(r, IF loc[r].session = "run" THEN "run_driver"
                ELSE DriverEntry(mode, r))
    /\ UNCHANGED <<resVars, mode, exit_code, mr_access, buf, sq, rq, cq, chan, loc, hist>>

\* A driver that goes on with the session of the run function: no config_t
\* of its own, no second setup.
RunDriverSameSession(r) ==
    /\ pc[r] = "run_driver"
    /\ Goto(r, DriverEntry(mode, r))
    /\ UNCHANGED <<resVars, mode, exit_code, qp, mr_access, buf, sq, rq, cq,
                   chan, loc, hist>>

\* run_server, run_client: the mode's driver is called; it begins with a
\* zeroed config_t of its own, on which it calls setup_rdma_connection.
\* The session of the run function stays as it is, unused, until the
\* driver returns.
RunDriver(r) ==
    /\ pc[r] = "run_driver"
    /\ loc' = [loc EXCEPT ![r] = [InitialLoc EXCEPT !.session = "driver"]]
    /\ qp' = [qp EXCEPT ![r] = FreshQp]
    /\ mr_access' = [mr_access EXCEPT ![r] = {}]
    /\ Goto(r, "init_resources")
    /\ UNCHANGED <<resVars, mode, exit_code, buf, sq, rq, cq, chan, hist>>

\* ibv_modify_qp fails in one of the three: die.
ModifyQpFails(r) ==
    /\ pc[r] \in {"modify_qp_to_init", "modify_qp_to_rtr", "modify_qp_to_rts"}
    /\ die(r)
    /\ UNCHANGED <<resVars, mode, qp, mr_access, buf, sq, rq, cq, chan, loc, hist>>

\* ------------------------------------------------- the operation executor

\* The history kept at every post of a work request by r.
NotePost(r) ==
    [hist EXCEPT ![r].early_post = @ \/ qp[r].transitions # AllTransitions,
                 ![r].post_after_fail = @ \/ hist[r].failed_wc]

\* post_operation called by r with its buffer holding b; the history is
\* kept when a request is posted.
PostOperationFrom(r, b, op, data, remote_info, length, h) ==
    LET res == post_operation(Endpoint(b, sq[r]), op, data, remote_info, length)
        n == NotePost(r)[r]
    IN  /\ buf' = [buf EXCEPT ![r] = res.buf]
        /\ sq' = [sq EXCEPT ![r] = res.sq]
        /\ hist' = IF res.sq # sq[r]
                   THEN [h EXCEPT ![r].early_post = n.early_post,
                                  ![r].post_after_fail = n.post_after_fail]
                   ELSE [h EXCEPT ![r].dropped = TRUE]

PostOperation(r, op, data, remote_info, length, h) ==
    PostOperationFrom(r, buf[r], op, data, remote_info, length, h)

\* A plausible slip: a second receive posted behind the first.
post_receive_twice(r) ==
    /\ rq' = [rq EXCEPT ![r] = @ + 2]
    /\ hist' = NotePost(r)

\* The history h with one more step of r's lambda loop.
Step(h, r, name) == [h EXCEPT ![r].steps = Append(@, name)]

\* post_receive, the history going on from h.
post_receive_noting(r, h) ==
    /\ rq' = [rq EXCEPT ![r] = @ + 1]
    /\ hist' = [h EXCEPT ![r].early_post = NotePost(r)[r].early_post,
                         ![r].post_after_fail = NotePost(r)[r].post_after_fail]

\* post_receive: one receive work request over the whole buffer.
post_receive(r) == post_receive_noting(r, hist)

\* wait_completion: poll until one completion is there; a non-success
\* status is fatal (die), otherwise go on at label next.
wait_completion_noting(r, next, h) ==
    /\ cq[r] # <<>>
    /\ cq' = [cq EXCEPT ![r] = Tail(@)]
    /\ loc' = [loc EXCEPT ![r].wc = Head(cq[r])]
    /\ IF Head(cq[r]).status # IBV_WC_SUCCESS
       THEN /\ die(r)
            /\ hist' = [hist EXCEPT ![r].failed_wc = TRUE]
       ELSE /\ Goto(r, next)
            /\ hist' = h
            /\ UNCHANGED exit_code

wait_completion(r, next) == wait_completion_noting(r, next, hist)

\* ------------------------------------------------------------ write mode

\* rw_server_loop: post_receive.
RwServerPostReceive ==
    /\ pc["server"] = "rw_post_receive"
    /\ post_receive("server")
    /\ Goto("server", "rw_poll")
    /\ UNCHANGED <<resVars, mode, exit_code, qp, mr_access, buf, sq, cq, chan, loc>>

\* rw_server_loop: its own poll loop; on a non-success status it logs and
\* continues with the next iteration.
RwServerPoll ==
    /\ pc["server"] = "rw_poll"
    /\ cq["server"] # <<>>
    /\ cq' = [cq EXCEPT !["server"] = Tail(@)]
    /\ loc' = [loc EXCEPT !["server"].wc = Head(cq["server"])]
    /\ IF Head(cq["server"]).status # IBV_WC_SUCCESS
       THEN /\ Goto("server", "rw_post_receive")
            /\ hist' = [hist EXCEPT !["server"].failed_wc = TRUE]
       ELSE /\ Goto("server", "rw_print")
            /\ UNCHANGED hist
    /\ UNCHANGED <<resVars, mode, exit_code, qp, mr_access, buf, sq, rq, chan>>

\* rw_server_loop: received_len = ntohl(wc.imm_data); print the buffer.
RwServerPrint ==
    /\ pc["server"] = "rw_print"
    /\ hist' = [hist EXCEPT !["server"].n_obs = @ + 1,
                            !["server"].obs =
                                [len |-> ntohl(loc["server"].wc.imm_data),
                                 data |-> buf["server"]]]
    /\ Goto("server", "rw_post_receive")
    /\ UNCHANGED <<resVars, mode, exit_code, qp, mr_access, buf, sq, rq, cq, chan, loc>>

\* rw_run_client: fgets returns a line; an empty line is skipped, any other
\* is written with rw_post_write (length strlen + 1).
RwClientWrite ==
    /\ pc["client"] = "rw_fgets"
    /\ loc["client"].n_in < MaxLines
    /\ \E m \in Lines(loc["client"].n_in + 1) :
        PostOperation("client", "OP_WRITE", m, loc["client"].remote_info, Len(m),
                      [hist EXCEPT !["client"].written = Append(@, m)])
    /\ loc' = [loc EXCEPT !["client"].n_in = @ + 1]
    /\ Goto("client", "rw_wait")
    /\ UNCHANGED <<resVars, mode, exit_code, qp, mr_access, rq, cq, chan>>

RwClientEmptyLine ==
    /\ pc["client"] = "rw_fgets"
    /\ loc["client"].n_in < MaxLines
    /\ loc' = [loc EXCEPT !["client"].n_in = @ + 1]
    /\ UNCHANGED <<resVars, mode, pc, exit_code, qp, mr_access, buf, sq, rq, cq, chan, hist>>

\* rw_run_client: wait_completion after the write.
RwClientWait ==
    /\ pc["client"] = "rw_wait"
    /\ wait_completion("client", "rw_fgets")
    /\ UNCHANGED <<resVars, mode, qp, mr_access, buf, sq, rq, chan>>

\* rw_run_client: end of input: cleanup_resources, return 0.
RwClientEof ==
    /\ pc["client"] = "rw_fgets"
    /\ Return("client", "0", hist)
    /\ UNCHANGED <<resVars, mode, qp, mr_access, buf, sq, rq, cq, chan, loc>>


\* ------------------------------------------------------ send/receive mode

\* The acknowledgment "ACK" with its terminator: one cell.
AckMsg == << <<"ACK">> >>

\* sr_post_send: the message with its terminator (strlen + 1).
sr_post_send(r, message, h) ==
    PostOperation(r, "OP_SEND", message, NoQpInfo, Len(message), h)

\* sr_server_loop: post_receive.
SrServerPostReceive ==
    /\ pc["server"] = "sr_post_receive"
    /\ post_receive("server")
    /\ Goto("server", "sr_wait_recv")
    /\ UNCHANGED <<resVars, mode, exit_code, qp, mr_access, buf, sq, cq, chan, loc>>

\* sr_server_loop: wait_completion for the message.
SrServerWaitRecv ==
    /\ pc["server"] = "sr_wait_recv"
    /\ wait_completion("server", "sr_print")
    /\ UNCHANGED <<resVars, mode, qp, mr_access, buf, sq, rq, chan>>

\* A plausible slip: the message is printed but not answered.
SrServerAckSkipped ==
    /\ pc["server"] = "sr_print"
    /\ hist' = [hist EXCEPT !["server"].n_obs = @ + 1,
                            !["server"].obs =
                                [len |-> loc["server"].wc.byte_len,
                                 data |-> buf["server"]]]
    /\ Goto("server", "sr_post_receive")
    /\ UNCHANGED <<resVars, mode, exit_code, qp, mr_access, buf, sq, rq, cq, chan, loc>>

\* sr_server_loop: print the buffer, then send "ACK".
SrServerAck ==
    /\ pc["server"] = "sr_print"
    /\ sr_post_send("server", AckMsg,
                    [hist EXCEPT !["server"].n_obs = @ + 1,
                                 !["server"].obs =
                                     [len |-> loc["server"].wc.byte_len,
                                      data |-> buf["server"]]])
    /\ Goto("server", "sr_wait_ack")
    /\ UNCHANGED <<resVars, mode, exit_code, qp, mr_access, rq, cq, chan, loc>>

\* sr_server_loop: wait_completion for the acknowledgment's send.
SrServerWaitAck ==
    /\ pc["server"] = "sr_wait_ack"
    /\ wait_completion("server", "sr_post_receive")
    /\ UNCHANGED <<resVars, mode, qp, mr_access, buf, sq, rq, chan>>

\* sr_run_client: fgets returns a non-empty line: sr_post_send.
SrClientSend ==
    /\ pc["client"] = "sr_fgets"
    /\ loc["client"].n_in < MaxLines
    /\ \E m \in Lines(loc["client"].n_in + 1) :
        sr_post_send("client", m, [hist EXCEPT !["client"].written = Append(@, m)])
    /\ loc' = [loc EXCEPT !["client"].n_in = @ + 1]
    /\ Goto("client", "sr_wait_send")
    /\ UNCHANGED <<resVars, mode, exit_code, qp, mr_access, rq, cq, chan>>

\* sr_run_client: an empty line is skipped.
SrClientEmptyLine ==
    /\ pc["client"] = "sr_fgets"
    /\ loc["client"].n_in < MaxLines
    /\ loc' = [loc EXCEPT !["client"].n_in = @ + 1]
    /\ UNCHANGED <<resVars, mode, pc, exit_code, qp, mr_access, buf, sq, rq, cq, chan, hist>>

SrClientWaitSend ==
    /\ pc["client"] = "sr_wait_send"
    /\ wait_completion("client", "sr_post_receive")
    /\ UNCHANGED <<resVars, mode, qp, mr_access, buf, sq, rq, chan>>

\* sr_run_client: post_receive for the acknowledgment.
SrClientPostReceive ==
    /\ pc["client"] = "sr_post_receive"
    /\ post_receive("client")
    /\ Goto("client", "sr_wait_ack")
    /\ UNCHANGED <<resVars, mode, exit_code, qp, mr_access, buf, sq, cq, chan, loc>>

\* sr_run_client: wait_completion for the acknowledgment, which is then in
\* the buffer.
SrClientWaitAck ==
    /\ pc["client"] = "sr_wait_ack"
    /\ wait_completion_noting("client", "sr_fgets",
           [hist EXCEPT !["client"].n_obs = @ + 1,
                        !["client"].obs = [len |-> Head(cq["client"]).byte_len,
                                           data |-> buf["client"]]])
    /\ UNCHANGED <<resVars, mode, qp, mr_access, buf, sq, rq, chan>>

\* sr_run_client: end of input: cleanup_resources, return 0.
SrClientEof ==
    /\ pc["client"] = "sr_fgets"
    /\ Return("client", "0", hist)
    /\ UNCHANGED <<resVars, mode, qp, mr_access, buf, sq, rq, cq, chan, loc>>

\* The steps of each side's loop.
SrServerStep ==
    \/ SrServerPostReceive
    \/ SrServerWaitRecv
    \/ SrServerAck
    \/ SrServerWaitAck

SrClientStep ==
    \/ SrClientSend
    \/ SrClientEmptyLine
    \/ SrClientWaitSend
    \/ SrClientPostReceive
    \/ SrClientWaitAck
    \/ SrClientEof

\* -------------------------------------------------------------- read mode

\* The numbers a line of the read client can parse to.
Positions == (0 - 1) .. MAX_BUFFER_SIZE

\* A line of input as sscanf takes it: two numbers, or not.
ParsedLines ==
    {[parsed |-> TRUE, start |-> s, end |-> e] : s \in Positions, e \in Positions}
        \cup {[parsed |-> FALSE, start |-> 0, end |-> 0]}

\* A range test that does not compare the two positions.
ValidRangeUnordered(start, end) == ~(start < 0 \/ end >= MAX_BUFFER_SIZE)

\* rd_run_client: the range test on the parsed pair.
ValidRange(start, end) == ~(start < 0 \/ end < start \/ end >= MAX_BUFFER_SIZE)

\* A plausible slip: the offset not applied.
rd_post_read_at_base(config, remote_offset, length, remote_info) ==
    [config |-> post_operation(config, "OP_READ", <<>>, remote_info, length),
     remote_info |-> remote_info]

\* A rd_post_read that does not move the address back.
rd_post_read_no_reset(config, remote_offset, length, remote_info) ==
    LET moved == [remote_info EXCEPT !.addr = @ + remote_offset]
    IN  [config |-> post_operation(config, "OP_READ", <<>>, moved, length),
         remote_info |-> moved]

\* rd_post_read: the record's address is moved by the offset for the post
\* and moved back.
rd_post_read(config, remote_offset, length, remote_info) ==
    LET moved == [remote_info EXCEPT !.addr = @ + remote_offset]
    IN  [config |-> post_operation(config, "OP_READ", <<>>, moved, length),
         remote_info |-> [moved EXCEPT !.addr = @ - remote_offset]]

\* rd_server_loop: fgets returns the line to store; it is copied into the
\* buffer with its terminator, then the server sleeps for good.
RdServerStore ==
    /\ pc["server"] = "rd_fgets"
    /\ \E m \in Lines(1) :
        /\ buf' = [buf EXCEPT !["server"] = memcpy(@, m, Len(m))]
        /\ hist' = [hist EXCEPT !["server"].written = Append(@, m)]
    /\ Goto("server", "rd_sleep")
    /\ UNCHANGED <<resVars, mode, exit_code, qp, mr_access, sq, rq, cq, chan, loc>>

\* rd_server_loop: no line: the loop function returns; cleanup_resources,
\* return 0.
RdServerEof ==
    /\ pc["server"] = "rd_fgets"
    /\ Return("server", "0", hist)
    /\ UNCHANGED <<resVars, mode, qp, mr_access, buf, sq, rq, cq, chan, loc>>

\* rd_run_client: a line with a valid pair: rd_post_read of end - start + 1
\* bytes at offset start.
\* (The line taken is kept in loc when keep says so.)
RdClientReadLine(line, keep) ==
    /\ pc["client"] = "rd_fgets"
    /\ loc["client"].n_in < MaxLines
    /\  /\ line.parsed
        /\ ValidRange(line.start, line.end)
        /\ LET start == line.start
               end == line.end
               res == rd_post_read(Endpoint(buf["client"], sq["client"]), start,
                                   (end - start) + 1, loc["client"].remote_info)
               n == NotePost("client")["client"]
           IN  /\ buf' = [buf EXCEPT !["client"] = res.config.buf]
               /\ sq' = [sq EXCEPT !["client"] = res.config.sq]
               /\ loc' = [loc EXCEPT !["client"].n_in = @ + 1,
                                     !["client"].line = IF keep THEN line ELSE @,
                                     !["client"].remote_info = res.remote_info]
               /\ hist' = LET h == [hist EXCEPT !["client"].rd =
                                        [made |-> TRUE, start |-> start, end |-> end,
                                         stored |-> pc["server"] = "rd_sleep",
                                         at_post |-> SubSeq(buf["server"], start + 1, end + 1),
                                         at_done |-> <<>>, got |-> <<>>]]
                          IN  IF res.config.sq # sq["client"]
                              THEN [h EXCEPT !["client"].early_post = n.early_post,
                                             !["client"].post_after_fail = n.post_after_fail]
                              ELSE h
    /\ Goto("client", "rd_wait")
    /\ UNCHANGED <<resVars, mode, exit_code, qp, mr_access, rq, cq, chan>>

RdClientRead == \E line \in ParsedLines : RdClientReadLine(line, FALSE)

\* rd_run_client: a pair outside the range, or a line that is not two
\* numbers: a message is printed and the next line is read.
RdClientInvalidLine(line, keep) ==
    /\ pc["client"] = "rd_fgets"
    /\ loc["client"].n_in < MaxLines
    /\ ~(line.parsed /\ ValidRange(line.start, line.end))
    /\ loc' = [loc EXCEPT !["client"].n_in = @ + 1,
                          !["client"].line = IF keep THEN line ELSE @]
    /\ UNCHANGED <<resVars, mode, pc, exit_code, qp, mr_access, buf, sq, rq, cq, chan, hist>>

RdClientInvalid == \E line \in ParsedLines : RdClientInvalidLine(line, FALSE)

\* rd_run_client: wait_completion, then the bytes read are printed.
RdClientWait ==
    /\ pc["client"] = "rd_wait"
    /\ LET rd == hist["client"].rd
       IN  wait_completion_noting("client", "rd_fgets",
               [hist EXCEPT !["client"].rd.at_done =
                                SubSeq(buf["server"], rd.start + 1, rd.end + 1),
                            !["client"].rd.got =
                                SubSeq(buf["client"], 1, (rd.end - rd.start) + 1)])
    /\ UNCHANGED <<resVars, mode, qp, mr_access, buf, sq, rq, chan>>

\* rd_run_client: end of input: cleanup_resources, return 0.
RdClientEof ==
    /\ pc["client"] = "rd_fgets"
    /\ Return("client", "0", hist)
    /\ UNCHANGED <<resVars, mode, qp, mr_access, buf, sq, rq, cq, chan, loc>>

\* ------------------------------------------------------------ lambda mode

\* LAMBDA_MAX_CODE_SIZE: 3 MB, 768 times the 4096 bytes of MAX_BUFFER_SIZE.
LAMBDA_MAX_CODE_SIZE == 768 * MAX_BUFFER_SIZE

\* get_function_size: one page, which is the size of the buffer.
get_function_size == MAX_BUFFER_SIZE

\* strlen(input) + 1 of the client's example input: inside the first cell.
InputSize == 1

\* sizeof(int) + sizeof(size_t): the status and output_size at the start of
\* the result record, a part of its first cell, counted as one unit.
data_offset == 1

\* A bound that forgets the two fields in front of the output.
max_copy_whole_buffer == MAX_BUFFER_SIZE

\* lambda_server_loop: the room behind the two fields.
max_copy == MAX_BUFFER_SIZE - data_offset

\* lambda_server_loop: the number of output bytes copied into result_buf
\* (none when output_size is 0).
bytes_to_copy(output_size) ==
    IF output_size > 0
    THEN IF output_size < max_copy THEN output_size ELSE max_copy
    ELSE 0

\* char output[1024] of lambda_run_client: a quarter of the buffer.
OutputCapacity == 1

\* execute_lambda: the number of bytes copied from the buffer, behind the
\* two fields, into the caller's output: *output_size as read from the
\* record c.
OutputCopied(c) == c[3]

\* The cells of the three messages of a request and of the result.  The
\* metadata and the address record that follows it lie in the first cell.
MetaCell(meta, qp_info) == <<"meta", meta, qp_info>>

CodeCells == [i \in 1 .. MAX_BUFFER_SIZE |-> <<"code", i>>]

InputCell == <<"input">>

ResultCell(status, output_size, output) ==
    <<"result", status, output_size, output>>

\* What the bytes of a cell that is not a metadata record can read as.
OtherMeta ==
    {Meta(cs, is, eo) : cs \in {0, 1, LAMBDA_MAX_CODE_SIZE + 1},
                        is \in {InputSize, MAX_BUFFER_SIZE + 1},
                        eo \in {0, 1}}

\* memcpy of the metadata and of the address record out of the buffer.
DecodedMeta(c) ==
    IF c[1] = "meta" THEN {[meta |-> c[2], qp_info |-> c[3]]}
    ELSE {[meta |-> m, qp_info |-> q] :
            m \in OtherMeta, q \in {NoQpInfo, LocalQpInfo("client")}}

\* The steps of lambda_server_loop for one request, by the names under
\* which the actions below log them.
ServerRequestOrder ==
    <<"post_receive", "wait", "copy_meta",
      "post_receive", "wait", "copy_code",
      "post_receive", "wait", "execute", "post_write", "wait">>

\* lambda_server_loop: the test of code_size (negated: the request goes on).
ValidCodeSize(meta) == ~(meta.code_size = 0 \/ meta.code_size > LAMBDA_MAX_CODE_SIZE)

\* A plausible slip: the entry offset allowed to equal the code size.
ValidEntryOffsetInclusive(meta) == ~(meta.entry_offset > meta.code_size)

\* lambda_server_loop: the test of entry_offset (negated).
ValidEntryOffset(meta) == ~(meta.entry_offset >= meta.code_size)

\* A result of the invoked function: its return value and *output_size.
\* LAMBDA_MAX_INPUT_SIZE and LAMBDA_MAX_OUTPUT_SIZE: both MAX_BUFFER_SIZE.
LAMBDA_MAX_INPUT_SIZE == MAX_BUFFER_SIZE

LAMBDA_MAX_OUTPUT_SIZE == MAX_BUFFER_SIZE

\* setup_lambda_regions (server and client alike): the input region is the
\* buffer, the output region starts LAMBDA_MAX_INPUT_SIZE after it.
setup_lambda_regions(b) ==
    [set |-> TRUE, input_region |-> b, output_region |-> b + LAMBDA_MAX_INPUT_SIZE]

\* The n bytes at address a lie inside the registered buffer of r.
InRegistered(r, a, n) ==
    /\ BufAddr(r) <= a
    /\ a + n <= BufAddr(r) + MAX_BUFFER_SIZE

\* A result of the invoked function: its return value, *output_size and
\* the bytes it wrote to the output region.
FuncResult(status, output_size, output) ==
    [returned |-> TRUE, status |-> status, output_size |-> output_size,
     output |-> output]

\* The call did not return: the process was ended by a fault.
Crash == [returned |-> FALSE, status |-> 0, output_size |-> 0, output |-> "none"]

\* process_data on the example input: the text in upper case, status 0,
\* output_size the length with the terminator.  On other input it stops at
\* the first NUL or at input_size.
process_data(input, input_size) ==
    IF input = InputCell /\ input_size = InputSize
    THEN {FuncResult(0, InputSize, "UPPERCASED")}
    ELSE {FuncResult(0, n, "other") : n \in {1, input_size + 1}}

\* func(input_region, input_size, output_region, &output_size): the call
\* of the address code_region + entry_offset.  When the region holds the
\* client's function and the offset is its start this is process_data;
\* otherwise the bytes called are no function, and the call can return
\* anything or end the process.
CallResults(code, meta, input) ==
    IF code = CodeCells /\ meta.entry_offset = 0
    THEN process_data(input, meta.input_size)
    ELSE {FuncResult(s, n, "other") :
            s \in {0, 1}, n \in {0, max_copy, MAX_BUFFER_SIZE + 1}}
         \cup {Crash}

\* The function's writes to the output region of r and the loop's reading
\* them back.  Inside the registered buffer they are what the function
\* wrote; outside it they run over memory the buffer does not own, and
\* then the bytes read back can be the ones written or others, or the
\* process can be ended by a fault.
OutputOutcomes(r, regions, res) ==
    IF ~res.returned \/ InRegistered(r, regions.output_region, res.output_size)
    THEN {res}
    ELSE {res, [res EXCEPT !.output = "indeterminate"], Crash}

\* The result record built in result_buf (the cells after the first are
\* stack memory never written).
result_buf(res) ==
    [i \in 1 .. MAX_BUFFER_SIZE |->
        IF i = 1 THEN ResultCell(res.status, res.output_size, res.output)
        ELSE Uninit]

\* post_lambda_write: always MAX_BUFFER_SIZE bytes.
post_lambda_write(r, b, data, remote_info, h) ==
    PostOperationFrom(r, b, "OP_WRITE", data, remote_info, MAX_BUFFER_SIZE, h)

\* setup_lambda_regions, called by lambda_run_server and lambda_run_client
\* when the connection is set up.
LambdaSetupRegions(r) ==
    /\ pc[r] = "lambda_setup_regions"
    /\ loc' = [loc EXCEPT ![r].regions = setup_lambda_regions(BufAddr(r))]
    /\ Goto(r, IF r = "server" THEN "lambda_post_receive_meta" ELSE "lambda_dlopen")
    /\ UNCHANGED <<resVars, mode, exit_code, qp, mr_access, buf, sq, rq, cq, chan, hist>>

\* setup_lambda_regions of the server: mmap or ibv_reg_mr of the code
\* region fails: exit(1).  (The client's checks nothing.)
LambdaSetupRegionsFails ==
    /\ pc["server"] = "lambda_setup_regions"
    /\ Exit("server", "1")
    /\ UNCHANGED <<resVars, mode, qp, mr_access, buf, sq, rq, cq, chan, loc, hist>>

\* A loop that executes as soon as the receive of the input is posted.
LambdaServerAfterPostNoInputWait ==
    [lambda_post_receive_meta |-> "lambda_wait_meta",
     lambda_post_receive_code |-> "lambda_wait_code",
     lambda_post_receive_input |-> "lambda_check_entry"]

\* lambda_server_loop: the three post_lambda_receive calls of a request.
LambdaServerAfterPost ==
    [lambda_post_receive_meta |-> "lambda_wait_meta",
     lambda_post_receive_code |-> "lambda_wait_code",
     lambda_post_receive_input |-> "lambda_wait_input"]

LambdaServerPostReceive ==
    /\ pc["server"] \in DOMAIN LambdaServerAfterPost
    /\ post_receive_noting("server", Step(hist, "server", "post_receive"))
    /\ Goto("server", LambdaServerAfterPost[pc["server"]])
    /\ UNCHANGED <<resVars, mode, exit_code, qp, mr_access, buf, sq, cq, chan, loc>>

\* lambda_server_loop: the four wait_completion calls of a request.
LambdaServerAfterWait ==
    [lambda_wait_meta |-> "lambda_copy_meta",
     lambda_wait_code |-> "lambda_copy_code",
     lambda_wait_input |-> "lambda_check_entry",
     lambda_wait_result |-> "lambda_post_receive_meta"]

LambdaServerWait ==
    /\ pc["server"] \in DOMAIN LambdaServerAfterWait
    /\ wait_completion_noting("server", LambdaServerAfterWait[pc["server"]],
                              Step(hist, "server", "wait"))
    /\ UNCHANGED <<resVars, mode, qp, mr_access, buf, sq, rq, chan>>

\* lambda_server_loop: the metadata and the client's record are copied out
\* of the buffer; code_size is tested, and a bad one breaks the loop.
LambdaServerCopyMeta ==
    /\ pc["server"] = "lambda_copy_meta"
    /\ \E d \in DecodedMeta(buf["server"][1]) :
        /\ loc' = [loc EXCEPT !["server"].meta = d.meta,
                              !["server"].client_info = d.qp_info]
        /\ IF ValidCodeSize(d.meta)
           THEN /\ Goto("server", "lambda_post_receive_code")
                /\ hist' = Step(hist, "server", "copy_meta")
           ELSE /\ Goto("server", "lambda_return")
                /\ hist' = [Step(hist, "server", "copy_meta") EXCEPT
                                !["server"].rejected = TRUE]
    /\ UNCHANGED <<resVars, mode, exit_code, qp, mr_access, buf, sq, rq, cq, chan>>

\* lambda_server_loop: code_size bytes of the buffer are copied into the
\* code region (bytes past the end of the buffer are indeterminate).
LambdaServerCopyCode ==
    /\ pc["server"] = "lambda_copy_code"
    /\ loc' = [loc EXCEPT !["server"].code =
                   memcpy(@, buf["server"],
                          Min(loc["server"].meta.code_size, MAX_BUFFER_SIZE))]
    /\ hist' = Step(hist, "server", "copy_code")
    /\ Goto("server", "lambda_post_receive_input")
    /\ UNCHANGED <<resVars, mode, exit_code, qp, mr_access, buf, sq, rq, cq, chan>>

\* lambda_server_loop: entry_offset is tested, and a bad one breaks the
\* loop; otherwise the function is invoked, the result record is built and
\* written to the client's record with post_lambda_write.
LambdaServerExecute ==
    /\ pc["server"] = "lambda_check_entry"
    /\ LET l == loc["server"]
       IN  IF ~ValidEntryOffset(l.meta)
           THEN /\ Goto("server", "lambda_return")
                /\ hist' = [hist EXCEPT !["server"].rejected = TRUE]
                /\ UNCHANGED <<exit_code, buf, sq, loc>>
           ELSE \E f \in CallResults(l.code, l.meta, buf["server"][1]) :
                \E res \in OutputOutcomes("server", l.regions, f) :
                  LET h == [Step(hist, "server", "execute") EXCEPT
                               !["server"].invoked = @ \cup {l.meta}]
                  IN  IF ~res.returned
                      THEN /\ Exit("server", "139")
                           /\ hist' = h
                           /\ UNCHANGED <<buf, sq, loc>>
                      ELSE /\ post_lambda_write("server", buf["server"], result_buf(res),
                                                l.client_info,
                                                Step(h, "server", "post_write"))
                           /\ loc' = [loc EXCEPT
                                  !["server"].result = result_buf(res)[1],
                                  !["server"].bytes_to_copy =
                                      bytes_to_copy(res.output_size)]
                           /\ Goto("server", "lambda_wait_result")
                           /\ UNCHANGED exit_code
    /\ UNCHANGED <<resVars, mode, qp, mr_access, rq, cq, chan>>

\* A lambda_run_server that returns -1 when its loop ended on a rejected
\* request.
LambdaServerReturnRejection ==
    /\ pc["server"] = "lambda_return"
    /\ Return("server", IF hist["server"].rejected THEN "255" ELSE "0", hist)
    /\ UNCHANGED <<resVars, mode, qp, mr_access, buf, sq, rq, cq, chan, loc>>

\* lambda_run_server, after the loop: cleanup_resources, return 0.
LambdaServerReturn ==
    /\ pc["server"] = "lambda_return"
    /\ Return("server", "0", hist)
    /\ UNCHANGED <<resVars, mode, qp, mr_access, buf, sq, rq, cq, chan, loc>>

\* execute_lambda: dlopen or dlsym fails: it returns -1, which
\* lambda_run_client returns after cleanup_resources.
LambdaClientDlopenFails ==
    /\ pc["client"] = "lambda_dlopen"
    /\ Return("client", "255", hist)
    /\ UNCHANGED <<resVars, mode, qp, mr_access, buf, sq, rq, cq, chan, loc>>

\* execute_lambda: the metadata and the client's own record are put at the
\* start of the buffer, and the buffer is written.
LambdaClientWriteMeta ==
    /\ pc["client"] = "lambda_dlopen"
    /\ LET b == [buf["client"] EXCEPT
                   ![1] = MetaCell(Meta(get_function_size, InputSize, 0),
                                   LocalQpInfo("client"))]
       IN  post_lambda_write("client", b, b, loc["client"].remote_info,
                             Step(hist, "client", "write_meta"))
    /\ Goto("client", "lambda_c_wait_meta")
    /\ UNCHANGED <<resVars, mode, exit_code, qp, mr_access, rq, cq, chan, loc>>

\* An execute_lambda that parses the buffer when the input write completes.
LambdaClientAfterWaitNoReceive ==
    [lambda_c_wait_meta |-> "lambda_c_write_code",
     lambda_c_wait_code |-> "lambda_c_write_input",
     lambda_c_wait_input |-> "lambda_c_parse",
     lambda_c_wait_result |-> "lambda_c_parse"]

\* execute_lambda: the four wait_completion calls.
LambdaClientAfterWait ==
    [lambda_c_wait_meta |-> "lambda_c_write_code",
     lambda_c_wait_code |-> "lambda_c_write_input",
     lambda_c_wait_input |-> "lambda_c_post_receive",
     lambda_c_wait_result |-> "lambda_c_parse"]

LambdaClientWait ==
    /\ pc["client"] \in DOMAIN LambdaClientAfterWait
    /\ wait_completion_noting("client", LambdaClientAfterWait[pc["client"]],
                              Step(hist, "client", "wait"))
    /\ UNCHANGED <<resVars, mode, qp, mr_access, buf, sq, rq, chan>>

\* execute_lambda: code_size bytes of the function are copied into the
\* buffer, and the buffer is written.
LambdaClientWriteCode ==
    /\ pc["client"] = "lambda_c_write_code"
    /\ LET b == memcpy(buf["client"], CodeCells, get_function_size)
       IN  post_lambda_write("client", b, b, loc["client"].remote_info,
                             Step(hist, "client", "write_code"))
    /\ Goto("client", "lambda_c_wait_code")
    /\ UNCHANGED <<resVars, mode, exit_code, qp, mr_access, rq, cq, chan, loc>>

\* execute_lambda: the input is copied into the buffer, and the buffer is
\* written.
LambdaClientWriteInput ==
    /\ pc["client"] = "lambda_c_write_input"
    /\ LET b == memcpy(buf["client"], <<InputCell>>, InputSize)
       IN  post_lambda_write("client", b, b, loc["client"].remote_info,
                             Step(hist, "client", "write_input"))
    /\ Goto("client", "lambda_c_wait_input")
    /\ UNCHANGED <<resVars, mode, exit_code, qp, mr_access, rq, cq, chan, loc>>

\* execute_lambda: post_receive for the notification of the result.
LambdaClientPostReceive ==
    /\ pc["client"] = "lambda_c_post_receive"
    /\ post_receive_noting("client", Step(hist, "client", "post_receive"))
    /\ Goto("client", "lambda_c_wait_result")
    /\ UNCHANGED <<resVars, mode, exit_code, qp, mr_access, buf, sq, cq, chan, loc>>

\* execute_lambda: the result record is read from the buffer;
\* lambda_run_client returns its status after cleanup_resources.
LambdaClientParse ==
    /\ pc["client"] = "lambda_c_parse"
    /\ \E c \in (IF buf["client"][1][1] = "result" THEN {buf["client"][1]}
                 ELSE {ResultCell(s, 0, "other") : s \in {0, 1}}) :
        /\ loc' = [loc EXCEPT !["client"].result = c]
        /\ Return("client", IF c[2] = 0 THEN "0" ELSE "1",
                  Step(hist, "client", "parse"))
    /\ UNCHANGED <<resVars, mode, qp, mr_access, buf, sq, rq, cq, chan>>
\* ------------------------------------------------------ SIGINT, SIGTERM

\* main: struct config_t config = {}; global_config = &config.  main hands
\* this object to no one: run_server and run_client, and the drivers they
\* call, work on config objects of their own.
MainConfig == ZeroConfig

global_config == MainConfig

\* The config_t of the session r is running, as init_resources and
\* setup_socket have filled it.
SessionConfig(r) ==
    LET made == init_resources(ZeroConfig, "none",
                               [k \in ResourceKinds |-> 1]).cfg
    IN  IF pc[r] = "init_resources" THEN ZeroConfig
        ELSE IF pc[r] \in {"setup_socket", "connect", "connect_sleep", "accept"}
        THEN made
        ELSE [made EXCEPT !.sock_fd = 3]

\* The handler installed: main installs signal_handler; lambda_run_client
\* replaces it by local_signal_handler once its connection is set up.
InstalledHandler(r) ==
    IF /\ mode = "MODE_LAMBDA"
       /\ r = "client"
       /\ loc[r].session = "driver"
       /\ pc[r] \notin {"init_resources", "setup_socket", "connect",
                        "connect_sleep", "exchange_first", "exchange_second",
                        "modify_qp_to_init", "modify_qp_to_rtr",
                        "modify_qp_to_rts"}
    THEN "local_signal_handler"
    ELSE "signal_handler"

\* signal_handler: if (global_config) cleanup_resources(global_config);
\* exit(0).  The releases made.
signal_handler(config) ==
    IF config # NULL_CONFIG THEN cleanup_resources(config).rel ELSE <<>>

\* local_signal_handler: if (global_config) exit(0).  The releases made.
local_signal_handler(config) == <<>>

\* SIGINT or SIGTERM is delivered to r, whatever r is doing; the handler
\* runs and the process exits with status 0.
Signal(r) ==
    /\ pc[r] # "exited"
    /\ hist' = [hist EXCEPT ![r].signal =
                   [caught |-> TRUE,
                    handler |-> InstalledHandler(r),
                    session |-> SessionConfig(r),
                    released |->
                        IF InstalledHandler(r) = "signal_handler"
                        THEN signal_handler(global_config)
                        ELSE local_signal_handler(global_config)]]
    /\ Exit(r, "0")
    /\ UNCHANGED <<resVars, mode, qp, mr_access, buf, sq, rq, cq, chan, loc>>
\* ---------------------------------------------------------- the transport
\* The reliable connection between the two queue pairs, as the verbs calls
\* of post_operation, post_receive and wait_completion drive it.  Work
\* requests of a send queue are processed in order, one packet of at most
\* PATH_MTU cells at a time; the data of a packet is read from the
\* requester's buffer when the packet is sent.

\* Requester r can move the next packet of its first work request.
CanTransmit(r) ==
    /\ sq[r] # <<>>
    /\ qp[r].state = "RTS"
    /\ qp[Peer(r)].state \in {"RTR", "RTS"}
    /\ pc[Peer(r)] # "exited"

\* The responder's check of a one-sided request: the key names its
\* registered buffer, the range lies inside it, and both the registration
\* and the queue pair grant the access.
RemoteAccessOk(r, w, flag) ==
    LET p == Peer(r)
        off == w.remote_addr - BufAddr(p)
    IN  /\ w.rkey = Rkey(p)
        /\ off >= 0 /\ off + w.length <= MAX_BUFFER_SIZE
        /\ flag \in mr_access[p]
        /\ flag \in qp[p].access

Advance(r, w) ==
    IF IsLastPkt(w) THEN Tail(sq[r])
    ELSE [sq[r] EXCEPT ![1].sent = w.sent + PktLen(w)]

\* One packet of an RDMA write with immediate.  Its data is placed at the
\* target address without the responder's CPU; only the last packet, which
\* carries the immediate value, consumes a posted receive (none posted:
\* receiver-not-ready, the packet is retried).  The last packet completes
\* the receive at the responder and, acknowledged, the write at r.
NicWritePacket(r) ==
    LET p == Peer(r)
        w == Head(sq[r])
        off == (w.remote_addr - BufAddr(p)) + w.sent
    IN  /\ CanTransmit(r)
        /\ w.opcode = "IBV_WR_RDMA_WRITE_WITH_IMM"
        /\ RemoteAccessOk(r, w, "REMOTE_WRITE")
        /\ IsLastPkt(w) => rq[p] > 0
        /\ buf' = [buf EXCEPT ![p] = PlacePkt(@, off, buf[r], w.sent, PktLen(w))]
        /\ sq' = [sq EXCEPT ![r] = Advance(r, w)]
        /\ IF IsLastPkt(w)
           THEN /\ rq' = [rq EXCEPT ![p] = @ - 1]
                /\ cq' = [cq EXCEPT
                            ![p] = Append(@, Wc(IBV_WC_SUCCESS, "IBV_WC_RECV_RDMA_WITH_IMM",
                                                w.imm_data, w.length)),
                            ![r] = Append(@, Wc(IBV_WC_SUCCESS, "IBV_WC_RDMA_WRITE", 0, 0))]
           ELSE UNCHANGED <<rq, cq>>
        /\ UNCHANGED <<resVars, mode, pc, exit_code, qp, mr_access, chan, loc, hist>>

\* One packet of a send.  The message goes into the buffer of the receive
\* at the head of the responder's receive queue (none posted:
\* receiver-not-ready, retried); the last packet completes that receive
\* and, acknowledged, the send at r.
NicSendPacket(r) ==
    LET p == Peer(r)
        w == Head(sq[r])
    IN  /\ CanTransmit(r)
        /\ w.opcode = "IBV_WR_SEND"
        /\ rq[p] > 0
        /\ buf' = [buf EXCEPT ![p] = PlacePkt(@, w.sent, buf[r], w.sent, PktLen(w))]
        /\ sq' = [sq EXCEPT ![r] = Advance(r, w)]
        /\ IF IsLastPkt(w)
           THEN /\ rq' = [rq EXCEPT ![p] = @ - 1]
                /\ cq' = [cq EXCEPT
                            ![p] = Append(@, Wc(IBV_WC_SUCCESS, "IBV_WC_RECV", 0, w.length)),
                            ![r] = Append(@, Wc(IBV_WC_SUCCESS, "IBV_WC_SEND", 0, 0))]
           ELSE UNCHANGED <<rq, cq>>
        /\ UNCHANGED <<resVars, mode, pc, exit_code, qp, mr_access, chan, loc, hist>>

\* One response packet of an RDMA read: the responder's memory at the
\* requested address is copied into the buffer of r; the last one
\* completes the read at r.  The responder's CPU takes no part.
NicReadPacket(r) ==
    LET p == Peer(r)
        w == Head(sq[r])
        from == (w.remote_addr - BufAddr(p)) + w.sent
    IN  /\ CanTransmit(r)
        /\ w.opcode = "IBV_WR_RDMA_READ"
        /\ RemoteAccessOk(r, w, "REMOTE_READ")
        /\ buf' = [buf EXCEPT ![r] = PlacePkt(@, w.sent, buf[p], from, PktLen(w))]
        /\ sq' = [sq EXCEPT ![r] = Advance(r, w)]
        /\ IF IsLastPkt(w)
           THEN cq' = [cq EXCEPT ![r] = Append(@, Wc(IBV_WC_SUCCESS, "IBV_WC_RDMA_READ",
                                                      0, w.length))]
           ELSE UNCHANGED cq
        /\ UNCHANGED <<resVars, mode, pc, exit_code, qp, mr_access, rq, chan, loc, hist>>

\* A one-sided request the responder's check refuses: the request is
\* completed with a remote access error and both queue pairs enter the
\* error state.
NicRemoteAccessError(r) ==
    LET p == Peer(r)
        w == Head(sq[r])
    IN  /\ CanTransmit(r)
        /\ \/ /\ w.opcode = "IBV_WR_RDMA_WRITE_WITH_IMM"
              /\ ~RemoteAccessOk(r, w, "REMOTE_WRITE")
           \/ /\ w.opcode = "IBV_WR_RDMA_READ"
              /\ ~RemoteAccessOk(r, w, "REMOTE_READ")
        /\ sq' = [sq EXCEPT ![r] = Tail(@)]
        /\ cq' = [cq EXCEPT ![r] = Append(@, Wc("IBV_WC_REM_ACCESS_ERR", "none", 0, 0))]
        /\ qp' = [q \in Roles |-> [qp[q] EXCEPT !.state = "ERR"]]
        /\ UNCHANGED <<resVars, mode, pc, exit_code, mr_access, buf, rq, chan, loc, hist>>

\* The queue pair of r enters the error state: the retry count is used up
\* (the peer is gone or not yet ready), or the device reports a fatal error.
QpError(r) ==
    /\ qp[r].state = "RTS"
    /\ pc[r] # "exited"
    /\ qp' = [qp EXCEPT ![r].state = "ERR"]
    /\ UNCHANGED <<resVars, mode, pc, exit_code, mr_access, buf, sq, rq, cq, chan, loc, hist>>

\* In the error state every work request is completed with a flush error.
NicFlushSend(r) ==
    /\ qp[r].state = "ERR"
    /\ pc[r] # "exited"
    /\ sq[r] # <<>>
    /\ sq' = [sq EXCEPT ![r] = Tail(@)]
    /\ cq' = [cq EXCEPT ![r] = Append(@, Wc("IBV_WC_WR_FLUSH_ERR", "none", 0, 0))]
    /\ UNCHANGED <<resVars, mode, pc, exit_code, qp, mr_access, buf, rq, chan, loc, hist>>

NicFlushRecv(r) ==
    /\ qp[r].state = "ERR"
    /\ pc[r] # "exited"
    /\ rq[r] > 0
    /\ rq' = [rq EXCEPT ![r] = @ - 1]
    /\ cq' = [cq EXCEPT ![r] = Append(@, Wc("IBV_WC_WR_FLUSH_ERR", "none", 0, 0))]
    /\ UNCHANGED <<resVars, mode, pc, exit_code, qp, mr_access, buf, sq, chan, loc, hist>>

NoCall == [made |-> FALSE, nth |-> 0]

\* No call made on the context of Part 1.
ResIdle ==
    /\ ctx = ZeroConfig
    /\ phase = "fresh"
    /\ live = {}
    /\ released = <<>>
    /\ init_call = NoCall
    /\ last_cleanup = NoCall
    /\ n_cleanup = 0

ResInit ==
    /\ DataInit("MODE_WRITE")
    /\ ctx = ZeroConfig
    /\ phase = "fresh"
    /\ live = {}
    /\ released = <<>>
    /\ init_call = NoCall
    /\ last_cleanup = NoCall
    /\ n_cleanup = 0

\* setup_rdma_connection's first step, on the zero-initialised context of a
\* run function (or on a NULL pointer).
CallInitResources ==
    /\ phase = "fresh"
    /\ \E arg \in {ctx, NULL_CONFIG}, fail \in InitFailures,
          h \in [ResourceKinds -> Handles] :
        LET r == init_resources(arg, fail, h)
        IN  /\ ctx' = IF arg = NULL_CONFIG THEN ctx ELSE r.cfg
            /\ phase' = IF r.ret = RDMA_SUCCESS THEN "inited" ELSE "failed"
            /\ live' = (live \cup SeqToSet(r.alloc)) \ SeqToSet(r.rel)
            /\ released' = released \o r.rel
            /\ init_call' = [made |-> TRUE, null |-> arg = NULL_CONFIG,
                             fail |-> fail, ret |-> r.ret,
                             alloc |-> r.alloc, rel |-> r.rel]
            /\ last_cleanup' =
                   IF r.cin = <<>> THEN last_cleanup
                   ELSE [made |-> TRUE, in |-> r.cin[1],
                         rel |-> SelectSeq(r.rel, LAMBDA x : x # DevList),
                         nth |-> last_cleanup.nth + 1]
    /\ UNCHANGED <<n_cleanup, dataVars>>

\* setup_socket's success path: the control socket stored in the context.
CallSetupSocket ==
    /\ phase = "inited"
    /\ n_cleanup = 0
    /\ \E fd \in SockFds :
        /\ ctx' = [ctx EXCEPT !.sock_fd = fd]
        /\ live' = live \cup {Rel("sock_fd", fd)}
    /\ phase' = "connected"
    /\ UNCHANGED <<released, init_call, last_cleanup, n_cleanup, dataVars>>

\* cleanup_resources called on the context (or on a NULL pointer) by a run
\* function, a signal handler or any other caller.
CallCleanupResources ==
    /\ n_cleanup < MaxCleanupCalls
    /\ phase # "exited"
    /\ \E arg \in {ctx, NULL_CONFIG} :
        LET r == cleanup_resources(arg)
        IN  /\ ctx' = IF arg = NULL_CONFIG THEN ctx ELSE r.cfg
            /\ live' = live \ SeqToSet(r.rel)
            /\ released' = released \o r.rel
            /\ last_cleanup' =
                   [made |-> TRUE, in |-> arg, rel |-> r.rel,
                    nth |-> IF arg = NULL_CONFIG THEN last_cleanup.nth
                            ELSE last_cleanup.nth + 1]
    /\ n_cleanup' = n_cleanup + 1
    /\ UNCHANGED <<phase, init_call, dataVars>>

\* The places of connect_qps at which a failure ends the process, and
\* whether the control socket is then in the context.
ConnectFailures == {"setup_socket", "exchange_qp_info", "modify_qp"}

\* die: the message is printed and the process exits; the context is not
\* touched.
die_leaving(config) == [cfg |-> config, rel |-> <<>>]

\* connect_qps fails after init_resources has succeeded: in setup_socket
\* (socket, host lookup, connect, bind, accept: the socket is not yet in
\* the context), in exchange_qp_info (a short read or write: the socket is
\* closed first) or in one of the three transitions; each ends in die.
CallConnectQpsDies ==
    /\ n_cleanup = 0
    /\ \E at \in ConnectFailures :
        /\ phase = IF at = "setup_socket" THEN "inited" ELSE "connected"
        /\ LET closed == IF at = "exchange_qp_info"
                         THEN <<Rel("sock_fd", ctx.sock_fd)>> ELSE <<>>
               r == die_leaving(ctx)
           IN  /\ ctx' = r.cfg
               /\ live' = live \ SeqToSet(closed \o r.rel)
               /\ released' = released \o closed \o r.rel
    /\ phase' = "exited"
    /\ die("server")
    /\ UNCHANGED <<init_call, last_cleanup, n_cleanup,
                   mode, qp, mr_access, buf, sq, rq, cq, chan, loc, hist>>

\* The resources of the lambda regions, which the context does not hold:
\* the code region (mmap on the server, malloc on the client) and its
\* registration code_mr.
LambdaRegionKinds == {"code_region", "code_mr"}

\* setup_lambda_regions, called on a connected context by lambda_run_server
\* and lambda_run_client: the code region is allocated and registered with
\* the context's PD; both are kept in server_regions or client_regions.
CallSetupLambdaRegions ==
    /\ phase = "connected"
    /\ n_cleanup = 0
    /\ \A x \in live : x[1] \notin LambdaRegionKinds
    /\ \E h \in Handles :
        live' = live \cup {Rel("code_region", 1), Rel("code_mr", h)}
    /\ UNCHANGED <<ctx, phase, released, init_call, last_cleanup, n_cleanup,
                   dataVars>>

ResNext ==
    \/ CallInitResources
    \/ CallSetupSocket
    \/ CallSetupLambdaRegions
    \/ CallCleanupResources
    \/ CallConnectQpsDies

SpecRes == ResInit /\ [][ResNext]_vars

(***************************************************************************)
(* Claims about the resource manager, checked under SpecRes.               *)
(***************************************************************************)

\* The initialisation sequence, and the teardown order the specification
\* states.
CreationOrder == <<"context", "pd", "cq", "qp", "buf", "mr", "sock_fd">>

TeardownOrder == <<"qp", "mr", "buf", "cq", "pd", "context", "sock_fd">>

\* The fields populated in c are the first n of the initialisation sequence.
IsPrefixContext(c) ==
    \E n \in 0 .. Len(CreationOrder) :
        \A i \in 1 .. Len(CreationOrder) : (c[CreationOrder[i]] # NULL) <=> (i <= n)

\* One release per populated field of c, in the stated teardown order.
ExpectedReleases(c) ==
    LET idx == SelectSeq([i \in 1 .. Len(TeardownOrder) |-> i],
                         LAMBDA i : c[TeardownOrder[i]] # NULL)
    IN  [j \in 1 .. Len(idx) |-> Rel(TeardownOrder[idx[j]], c[TeardownOrder[idx[j]]])]

\* Every resource the context ever held.
EverHeld ==
    (SeqToSet(init_call.alloc) \ {DevList})
        \cup (IF ctx.sock_fd # 0 THEN {Rel("sock_fd", ctx.sock_fd)} ELSE {})

\* C4: a second cleanup_resources call on a fully initialised context that
\* was already torn down once releases nothing, so that over the two calls
\* every resource is released exactly once.
C4_TeardownIdempotent ==
    (phase = "connected" /\ last_cleanup.made /\ last_cleanup.in # NULL_CONFIG
        /\ last_cleanup.nth = 2)
    => /\ last_cleanup.rel = <<>>
       /\ \A x \in EverHeld : Count(x, released) = 1

\* C5: one cleanup_resources call on a context in which a prefix of the
\* initialisation sequence is populated releases exactly the populated
\* resources, in the order QP, MR, buffer, CQ, PD, device context, socket,
\* and nothing for an absent field; on a NULL context it releases nothing.
C5_CleanupReleasesPopulatedInOrder ==
    (last_cleanup.made /\ last_cleanup.nth <= 1)
    => IF last_cleanup.in = NULL_CONFIG
       THEN last_cleanup.rel = <<>>
       ELSE IsPrefixContext(last_cleanup.in)
            => last_cleanup.rel = ExpectedReleases(last_cleanup.in)

\* C5 witness: the call made when queue-pair creation failed, on a context
\* holding the device context, the PD and the CQ only.
C5_Witness ==
    /\ last_cleanup.made /\ last_cleanup.nth = 1
    /\ last_cleanup.in # NULL_CONFIG
    /\ last_cleanup.in.cq # NULL /\ last_cleanup.in.qp = NULL
    /\ Len(last_cleanup.rel) = 3

DeviceSteps == {"get_device_list", "first_device", "open_device", "query_gid"}

\* C6: a failing init_resources returns RDMA_ERR_DEVICE for the device
\* steps (device list, first device, open, GID query) and
\* RDMA_ERR_RESOURCE for PD, CQ, QP, buffer, registration and a NULL
\* config, and has by then released each resource it acquired exactly once.
C6_InitFailureTypedAndUnwound ==
    (init_call.made /\ init_call.ret # RDMA_SUCCESS)
    => /\ init_call.ret =
              IF init_call.null THEN RDMA_ERR_RESOURCE
              ELSE IF init_call.fail \in DeviceSteps THEN RDMA_ERR_DEVICE
              ELSE RDMA_ERR_RESOURCE
       /\ init_call.null \/ init_call.fail # "none"
       /\ \A x \in SeqToSet(init_call.alloc) : Count(x, init_call.rel) = 1

\* C6 witness: memory registration failed with the device context, PD, CQ,
\* QP and buffer acquired.
C6_Witness ==
    /\ init_call.made /\ ~init_call.null
    /\ init_call.fail = "reg_mr"
    /\ init_call.ret = RDMA_ERR_RESOURCE
    /\ Len(init_call.alloc) = 6
    /\ live = {}


Reverse(s) == [i \in 1 .. Len(s) |-> s[Len(s) + 1 - i]]

Kinds(rels) == [i \in 1 .. Len(rels) |-> rels[i][1]]

Without(s, ks) == SelectSeq(s, LAMBDA k : k \notin ks)

\* The kinds of resource the context c holds, in the order in which
\* init_resources acquired them, the control socket coming last.
CreatedIn(c) ==
    LET acquired == IF init_call.made THEN Kinds(init_call.alloc) ELSE <<>>
    IN  SelectSeq(Without(acquired, {"dev_list"}) \o <<"sock_fd">>,
                  LAMBDA k : c[k] # NULL)

\* A cleanup_resources call was made on a context.
CleanupMade == last_cleanup.made /\ last_cleanup.in # NULL_CONFIG

MaxPosted == 2

Ops == {"OP_SEND", "OP_WRITE", "OP_READ"}

ConnectedQp == modify_qp_to_rts(modify_qp_to_rtr(modify_qp_to_init(FreshQp, QpAccessFlags("MODE_WRITE"))))

PostInit ==
    /\ ResIdle
    /\ mode = "MODE_WRITE"
    /\ pc = [r \in Roles |-> "post_operation"]
    /\ exit_code = [r \in Roles |-> "none"]
    /\ qp = [r \in Roles |-> ConnectedQp]
    /\ mr_access = [r \in Roles |-> MrAccessFlags("MODE_WRITE")]
    /\ buf = [r \in Roles |-> FreshBuffer]
    /\ sq = [r \in Roles |-> <<>>]
    /\ rq = [r \in Roles |-> 0]
    /\ cq = [r \in Roles |-> <<>>]
    /\ chan = [r \in Roles |-> <<>>]
    /\ loc = [r \in Roles |->
                [InitialLoc EXCEPT !.session = "driver",
                                   !.remote_qp_info = LocalQpInfo(Peer(r)),
                                   !.remote_info = LocalQpInfo(Peer(r))]]
    /\ hist = [r \in Roles |-> InitialHist]

\* One call post_operation(config, op, data, remote_info, length) by r; the
\* session as it was before the call and what the caller got back are kept.
CallPostOperation(r) ==
    /\ pc[r] = "post_operation"
    /\ hist["server"].post.n + hist["client"].post.n < MaxPosted
    /\ \E op \in Ops, length \in 0 .. (MAX_BUFFER_SIZE + 1) :
         \E data \in {<<>>} \cup {Line(1, n) : n \in {length} \ {0}} :
            LET config == Endpoint(buf[r], sq[r])
                res == post_operation(config, op, data, loc[r].remote_info, length)
            IN  /\ buf' = [buf EXCEPT ![r] = res.buf]
                /\ sq' = [sq EXCEPT ![r] = res.sq]
                /\ hist' = [hist EXCEPT ![r].post =
                               [made |-> TRUE, n |-> @.n + 1, length |-> length,
                                ret |-> PostOperationReturn(config, length),
                                before |-> config, qp |-> qp[r]]]
    /\ UNCHANGED <<resVars, mode, pc, exit_code, qp, mr_access, rq, cq, chan, loc>>

PostNext == \E r \in Roles : CallPostOperation(r)

SpecPost == PostInit /\ [][PostNext]_vars

\* C7: a call of post_operation with length > MAX_BUFFER_SIZE, of whatever
\* operation kind, posts no work request and leaves the registered buffer
\* and the queue pair as they were before the call.
C7_OversizePostChangesNothing ==
    \A r \in Roles :
        (hist[r].post.made /\ hist[r].post.length > MAX_BUFFER_SIZE) =>
            /\ sq[r] = hist[r].post.before.sq
            /\ buf[r] = hist[r].post.before.buf
            /\ qp[r] = hist[r].post.qp

\* An oversize call on a session that holds data and a posted request.
C7_Witness ==
    \E r \in Roles :
        /\ hist[r].post.made
        /\ hist[r].post.length > MAX_BUFFER_SIZE
        /\ sq[r] # <<>>
        /\ buf[r] # FreshBuffer

\* C8: a call of post_operation with length > MAX_BUFFER_SIZE gives its
\* caller a ResourceError outcome (RDMA_ERR_RESOURCE), which a successful
\* post does not give.
C8_OversizePostReportsResourceError ==
    \A r \in Roles :
        (hist[r].post.made /\ hist[r].post.length > MAX_BUFFER_SIZE) =>
            hist[r].post.ret = RDMA_ERR_RESOURCE
\* ------------------------------------------------------ the specification

Init == ResIdle /\ \E m \in Modes : DataInit(m)

SetupStep(r) ==
    \/ SetupInitResources(r)
    \/ SetupSocketFails(r)
    \/ ExchangeWrite(r)
    \/ ExchangeRead(r)
    \/ ExchangeFails(r)
    \/ ConnectQpsInit(r)
    \/ ConnectQpsRtr(r)
    \/ RunDriver(r)
    \/ ConnectQpsRts(r)
    \/ ModifyQpFails(r)

WriteModeStep ==
    \/ RwServerPostReceive
    \/ RwServerPoll
    \/ RwServerPrint
    \/ RwClientWrite
    \/ RwClientEmptyLine
    \/ RwClientWait
    \/ RwClientEof

SendRecvModeStep ==
    \/ SrServerPostReceive
    \/ SrServerWaitRecv
    \/ SrServerAck
    \/ SrServerWaitAck
    \/ SrClientSend
    \/ SrClientEmptyLine
    \/ SrClientWaitSend
    \/ SrClientPostReceive
    \/ SrClientWaitAck
    \/ SrClientEof

ReadModeStep ==
    \/ RdServerStore
    \/ RdServerEof
    \/ RdClientRead
    \/ RdClientInvalid
    \/ RdClientWait
    \/ RdClientEof

LambdaModeStep ==
    \/ \E r \in Roles : LambdaSetupRegions(r)
    \/ LambdaSetupRegionsFails
    \/ LambdaServerPostReceive
    \/ LambdaServerWait
    \/ LambdaServerCopyMeta
    \/ LambdaServerCopyCode
    \/ LambdaServerExecute
    \/ LambdaServerReturn
    \/ LambdaClientDlopenFails
    \/ LambdaClientWriteMeta
    \/ LambdaClientWait
    \/ LambdaClientWriteCode
    \/ LambdaClientWriteInput
    \/ LambdaClientPostReceive
    \/ LambdaClientParse

TransportStep(r) ==
    \/ NicWritePacket(r)
    \/ NicSendPacket(r)
    \/ NicReadPacket(r)
    \/ Signal(r)
    \/ NicRemoteAccessError(r)
    \/ QpError(r)
    \/ NicFlushSend(r)
    \/ NicFlushRecv(r)

Next ==
    \/ \E r \in Roles : SetupStep(r)
    \/ ServerListen
    \/ ClientSocket
    \/ ClientConnect
    \/ ClientConnectRefused
    \/ ClientConnectFails
    \/ ClientSleep
    \/ WriteModeStep
    \/ SendRecvModeStep
    \/ ReadModeStep
    \/ LambdaModeStep
    \/ \E r \in Roles : TransportStep(r)

Spec == Init /\ [][Next]_vars


(***************************************************************************)
(* SpecSrLive: the two send/receive loops on an established connection     *)
(* with no failure of the device or of the peer.  Each process keeps       *)
(* running (it polls in a busy loop), and the transport keeps retrying a   *)
(* send that finds no receive posted (rnr_retry of 7: without limit).      *)
(***************************************************************************)
ConnectedAt(m, at) ==
    /\ ResIdle
    /\ mode = m
    /\ pc = at
    /\ exit_code = [r \in Roles |-> "none"]
    /\ qp = [r \in Roles |->
               modify_qp_to_rts(modify_qp_to_rtr(
                   modify_qp_to_init(FreshQp, QpAccessFlags(DriverMode(m)))))]
    /\ mr_access = [r \in Roles |-> MrAccessFlags(DriverMode(m))]
    /\ buf = [r \in Roles |-> FreshBuffer]
    /\ sq = [r \in Roles |-> <<>>]
    /\ rq = [r \in Roles |-> 0]
    /\ cq = [r \in Roles |-> <<>>]
    /\ chan = [r \in Roles |-> <<>>]
    /\ loc = [r \in Roles |->
                [InitialLoc EXCEPT
                    !.session = "driver",
                    !.remote_qp_info = LocalQpInfo(Peer(r)),
                    !.remote_info =
                        IF r = "client" THEN LocalQpInfo("server") ELSE NoQpInfo]]
    /\ hist = [r \in Roles |-> InitialHist]

Connected(m) == ConnectedAt(m, [r \in Roles |-> DriverEntry(m, r)])

SrLiveInit == Connected("MODE_SEND_RECV")

SrTransport == \E r \in Roles : NicSendPacket(r)

SrLiveNext == SrServerStep \/ SrClientStep \/ SrTransport

SpecSrLive ==
    /\ SrLiveInit
    /\ [][SrLiveNext]_vars
    /\ WF_vars(SrServerStep)
    /\ WF_vars(SrClientStep)
    /\ WF_vars(SrTransport)

\* The bookkeeping of messages and acknowledgments at every moment.
SrExchangeInStep ==
    LET sent == Len(hist["client"].written)
        printed == hist["server"].n_obs
        acked == hist["client"].n_obs
    IN  /\ acked <= printed /\ printed <= sent /\ sent <= acked + 1
        /\ printed > 0 =>
              /\ hist["server"].obs.len = Len(hist["client"].written[printed])
              /\ SubSeq(hist["server"].obs.data, 1, hist["server"].obs.len) =
                    hist["client"].written[printed]
        /\ acked > 0 =>
              /\ hist["client"].obs.len = Len(AckMsg)
              /\ SubSeq(hist["client"].obs.data, 1, Len(AckMsg)) = AckMsg
        /\ Len(sq["server"]) <= 1
        /\ \A i \in 1 .. Len(sq["server"]) : sq["server"][i].length = Len(AckMsg)

\* C12: in send/receive mode every message the client sends is received by
\* the server as sent and answered with exactly one "ACK"; the client's
\* receive that follows completes with exactly "ACK" in its buffer, and the
\* client sends message n+1 only after that receive for message n has
\* completed; whichever side posts first, every message sent is
\* eventually acknowledged.
C12_EveryMessageAcknowledged ==
    /\ []SrExchangeInStep
    /\ \A n \in 1 .. MaxLines :
          (Len(hist["client"].written) = n) ~> (hist["client"].n_obs = n)

\* The second message acknowledged, the first having been longer than one
\* packet.
C12_Witness ==
    /\ mode = "MODE_SEND_RECV"
    /\ hist["client"].n_obs = 2
    /\ Len(hist["client"].written[1]) > PATH_MTU
    /\ pc["client"] = "sr_fgets"
(***************************************************************************)
(* SpecHandshake: connect_qps of one server and one client, each having    *)
(* initialised its resources, in the session of the run functions or in    *)
(* that of the drivers, with no failure of the socket calls or of    *)
(* the device.  A connect that finds no server listening is refused and    *)
(* retried.  Each process keeps running, sleep returns, and the socket     *)
(* delivers what was written to it.                                        *)
(***************************************************************************)
HandshakeInit ==
    /\ ResIdle
    /\ \E m \in Modes, s \in {"run", "driver"} :
        /\ mode = m
        /\ loc = [r \in Roles |-> [InitialLoc EXCEPT !.session = s]]
        /\ mr_access = [r \in Roles |->
                           MrAccessFlags(IF s = "run" THEN m ELSE DriverMode(m))]
    /\ pc = [r \in Roles |-> "setup_socket"]
    /\ exit_code = [r \in Roles |-> "none"]
    /\ qp = [r \in Roles |-> FreshQp]
    /\ buf = [r \in Roles |-> FreshBuffer]
    /\ sq = [r \in Roles |-> <<>>]
    /\ rq = [r \in Roles |-> 0]
    /\ cq = [r \in Roles |-> <<>>]
    /\ chan = [r \in Roles |-> <<>>]
    /\ hist = [r \in Roles |-> InitialHist]

HandshakeStep(r) ==
    \/ ExchangeWrite(r)
    \/ ExchangeRead(r)
    \/ ConnectQpsInit(r)
    \/ ConnectQpsRtr(r)
    \/ ConnectQpsRts(r)

HandshakeConnect ==
    \/ ServerListen
    \/ ClientSocket
    \/ ClientConnect
    \/ ClientConnectRefused
    \/ ClientSleep

HandshakeNext ==
    \/ HandshakeConnect
    \/ HandshakeStep("server")
    \/ HandshakeStep("client")

SpecHandshake ==
    /\ HandshakeInit
    /\ [][HandshakeNext]_vars
    /\ WF_vars(HandshakeConnect)
    /\ WF_vars(HandshakeStep("server"))
    /\ WF_vars(HandshakeStep("client"))

\* Both sides blocked in read with nothing on the way to either.
MutualWait ==
    /\ \A r \in Roles : ExchangeCall(r) = "read"
    /\ \A r \in Roles : chan[r] = <<>>

Holds(r, info) == loc[r].remote_qp_info = info

\* The client has written when it reads, the server has read when it
\* writes.
ExchangeOrdered ==
    /\ ExchangeCall("client") = "read" =>
          \/ chan["server"] = <<LocalQpInfo("client")>>
          \/ Holds("server", LocalQpInfo("client"))
    /\ ExchangeCall("server") = "write" => Holds("server", LocalQpInfo("client"))
    /\ (chan["client"] # <<>> \/ ~Holds("client", NoQpInfo)) =>
          Holds("server", LocalQpInfo("client"))
    /\ ~Holds("client", NoQpInfo) => pc["client"] # "exchange_first"

\* The exchange is behind r: r holds the record its peer sent.
Exchanged(r) ==
    /\ pc[r] = "modify_qp_to_init"
    /\ Holds(r, LocalQpInfo(Peer(r)))
    /\ r = "client" => loc[r].remote_info = LocalQpInfo(Peer(r))

\* C14: once connected, the exchange of the two records never leaves both
\* sides waiting for each other and always ends; the client writes its
\* record before it reads, the server reads before it writes, and after
\* the exchange each side holds exactly the record the other side sent.
C14_ExchangeTerminates ==
    /\ [](~MutualWait /\ ExchangeOrdered)
    /\ \A r \in Roles : (pc[r] = "exchange_first") ~> Exchanged(r)

\* Both sides past the exchange, each holding the record of the other.
C14_Witness ==
    /\ \A r \in Roles :
          /\ pc[r] \in {"modify_qp_to_init", "modify_qp_to_rtr", "modify_qp_to_rts"}
          /\ loc[r].session = "driver"
          /\ Holds(r, LocalQpInfo(Peer(r)))
    /\ chan = [r \in Roles |-> <<>>]
(***************************************************************************)
(* SpecPeer: the lambda server or the lambda client on an established      *)
(* connection, talking to a peer that keeps to the protocol's order        *)
(* but may put any values into its records: the server                     *)
(* gets any metadata record, the client any result record.  A message of   *)
(* the peer arrives whole, when a receive is posted for it; a write is     *)
(* acknowledged at once.  The peer puts at most MaxRequests requests.      *)
(***************************************************************************)

\* The metadata records of a peer: code sizes and input sizes at, inside
\* and beyond the buffer and the code region, entry offsets inside and
\* beyond the code.
PeerMetas ==
    {Meta(cs, is, eo) :
        cs \in {0, 1, MAX_BUFFER_SIZE, MAX_BUFFER_SIZE + 1,
                LAMBDA_MAX_CODE_SIZE, LAMBDA_MAX_CODE_SIZE + 1},
        is \in {0, InputSize, MAX_BUFFER_SIZE, MAX_BUFFER_SIZE + 1},
        eo \in {0, MAX_BUFFER_SIZE + 1}}

\* The output sizes a peer's result record can carry.
PeerOutputSizes == 0 .. MAX_BUFFER_SIZE + 1

\* A full-buffer message whose first cell is c.
PeerBuffer(c) == [i \in 1 .. MAX_BUFFER_SIZE |-> IF i = 1 THEN c ELSE Uninit]

\* What the peer of r writes for the receive r now waits on.
PeerMessages(r) ==
    CASE pc[r] = "lambda_wait_meta" ->
            {PeerBuffer(MetaCell(m, LocalQpInfo(Peer(r)))) : m \in PeerMetas}
      [] pc[r] = "lambda_wait_code" -> {CodeCells}
      [] pc[r] = "lambda_wait_input" -> {PeerBuffer(InputCell)}
      [] pc[r] = "lambda_c_wait_result" ->
            {PeerBuffer(ResultCell(s, n, "other")) :
                s \in {0, 1}, n \in PeerOutputSizes}
      [] OTHER -> {}

\* One of the two processes is run, at the start of its driver; the place
\* of the other is taken by the peer.
PeerInit ==
    \E r \in Roles :
        ConnectedAt("MODE_LAMBDA",
                    [x \in Roles |->
                        IF x = r THEN DriverEntry("MODE_LAMBDA", x) ELSE "peer"])

\* The peer's write with immediate arrives in r's buffer and completes the
\* receive r has posted.
PeerWrite(r) ==
    /\ rq[r] > 0
    /\ Len(hist[r].steps) < MaxRequests * Len(ServerRequestOrder)
    /\ \E msg \in PeerMessages(r) : buf' = [buf EXCEPT ![r] = msg]
    /\ rq' = [rq EXCEPT ![r] = @ - 1]
    /\ cq' = [cq EXCEPT ![r] =
                Append(@, Wc(IBV_WC_SUCCESS, "IBV_WC_RECV_RDMA_WITH_IMM",
                             htonl(MAX_BUFFER_SIZE), MAX_BUFFER_SIZE))]
    /\ UNCHANGED <<resVars, mode, pc, exit_code, qp, mr_access, sq, chan, loc, hist>>

\* The peer acknowledges the write r has posted.
PeerAck(r) ==
    /\ sq[r] # <<>>
    /\ sq' = [sq EXCEPT ![r] = Tail(@)]
    /\ cq' = [cq EXCEPT ![r] =
                Append(@, Wc(IBV_WC_SUCCESS, "IBV_WC_RDMA_WRITE", 0, 0))]
    /\ UNCHANGED <<resVars, mode, pc, exit_code, qp, mr_access, buf, rq, chan, loc, hist>>

PeerNext ==
    \/ \E r \in Roles : LambdaSetupRegions(r)
    \/ LambdaServerPostReceive
    \/ LambdaServerWait
    \/ LambdaServerCopyMeta
    \/ LambdaServerCopyCode
    \/ LambdaServerExecute
    \/ LambdaServerReturn
    \/ LambdaClientWriteMeta
    \/ LambdaClientWait
    \/ LambdaClientWriteCode
    \/ LambdaClientWriteInput
    \/ LambdaClientPostReceive
    \/ LambdaClientParse
    \/ \E r \in Roles : PeerWrite(r)
    \/ \E r \in Roles : PeerAck(r)

SpecPeer == PeerInit /\ [][PeerNext]_vars
(***************************************************************************)
(* SpecReadLines: the read server and the read client on an established    *)
(* connection with no failure; every line the client takes from its input  *)
(* is kept in loc, as sscanf parsed it.                                    *)
(***************************************************************************)
ReadLinesInit == Connected("MODE_READ")

RdClientReadKept == \E line \in ParsedLines : RdClientReadLine(line, TRUE)

RdClientInvalidKept == \E line \in ParsedLines : RdClientInvalidLine(line, TRUE)

ReadLinesNext ==
    \/ RdServerStore
    \/ RdServerEof
    \/ RdClientReadKept
    \/ RdClientInvalidKept
    \/ RdClientWait
    \/ RdClientEof
    \/ NicReadPacket("client")

SpecReadLines == ReadLinesInit /\ [][ReadLinesNext]_vars

(***************************************************************************)
(* SpecSessions: one run of a server and a client up to the drivers'       *)
(* loops, the two sessions of each one after the other, with no failure    *)
(* of a socket call or of the device.  The server was started first: it    *)
(* is in accept when the client begins.  A connect that finds no server    *)
(* listening is refused and retried after sleep(1).  Each process keeps    *)
(* running and sleep returns.                                              *)
(***************************************************************************)
SessionsInit ==
    /\ ResIdle
    /\ \E m \in Modes :
        /\ mode = m
        /\ mr_access = [r \in Roles |->
                           IF r = "server" THEN MrAccessFlags(m) ELSE {}]
    /\ pc = [r \in Roles |-> IF r = "server" THEN "accept" ELSE "init_resources"]
    /\ exit_code = [r \in Roles |-> "none"]
    /\ qp = [r \in Roles |-> FreshQp]
    /\ buf = [r \in Roles |-> FreshBuffer]
    /\ sq = [r \in Roles |-> <<>>]
    /\ rq = [r \in Roles |-> 0]
    /\ cq = [r \in Roles |-> <<>>]
    /\ chan = [r \in Roles |-> <<>>]
    /\ loc = [r \in Roles |-> InitialLoc]
    /\ hist = [r \in Roles |-> InitialHist]

SetupInitResourcesOk(r) == SetupInitResourcesWith(r, {"none"})

SessionsServer ==
    \/ SetupInitResourcesOk("server")
    \/ ServerListen
    \/ HandshakeStep("server")
    \/ RunDriver("server")

SessionsClient ==
    \/ SetupInitResourcesOk("client")
    \/ ClientSocket
    \/ ClientConnect
    \/ ClientConnectRefused
    \/ ClientSleep
    \/ HandshakeStep("client")
    \/ RunDriver("client")

SessionsNext ==
    \/ SessionsServer
    \/ SessionsClient

SpecSessions ==
    /\ SessionsInit
    /\ [][SessionsNext]_vars
    /\ WF_vars(SessionsServer)
    /\ WF_vars(SessionsClient)

(***************************************************************************)
(* Properties of Spec.                                                     *)
(***************************************************************************)

\* C1: in every mode and role, no work request (send, write, read or
\* receive) is posted on a queue pair before that queue pair has made the
\* three transitions to INIT, RTR and RTS, in this order.
C1_NoPostBeforeReadyToSend ==
    \A r \in Roles :
        /\ ~hist[r].early_post
        /\ (sq[r] # <<>> \/ rq[r] > 0 \/ cq[r] # <<>>) =>
               qp[r].transitions = AllTransitions

\* In each mode's client a request is posted after the three transitions.
C1_Witness ==
    /\ sq["client"] # <<>>
    /\ rq["server"] > 0
    /\ \A r \in Roles : qp[r].transitions = AllTransitions

\* C2: the lambda server invokes the received code only with metadata for
\* which 0 < code_size <= LAMBDA_MAX_CODE_SIZE and entry_offset < code_size.
C2_InvokedOnlyWithValidMetadata ==
    \A v \in hist["server"].invoked :
        /\ 0 < v.code_size
        /\ v.code_size <= LAMBDA_MAX_CODE_SIZE
        /\ v.entry_offset < v.code_size

\* The function has been invoked, once with the metadata the client sent
\* and, in another run, with other bytes that pass both tests.
C2_Witness ==
    /\ mode = "MODE_LAMBDA"
    /\ hist["server"].invoked # {}
    /\ loc["server"].meta \in hist["server"].invoked
    /\ loc["server"].meta.code_size < get_function_size

\* The labels of lambda_server_loop.
LambdaServerLoopLabels ==
    DOMAIN LambdaServerAfterPost \cup DOMAIN LambdaServerAfterWait
        \cup {"lambda_copy_meta", "lambda_copy_code", "lambda_check_entry"}

\* C3: when the lambda server has rejected a request (code_size zero or
\* above the capacity of the code region, or entry_offset >= code_size),
\* it is still in its loop, on the way to or waiting for the next
\* request's metadata: the loop is not left.
C3_RejectionStaysInLoop ==
    hist["server"].rejected => pc["server"] \in LambdaServerLoopLabels

\* C9: in every mode and role, once a completion with a non-success status
\* has been polled on a session, no further work request is posted on it.
C9_NoPostAfterFailedCompletion ==
    \A r \in Roles : ~hist[r].post_after_fail

\* C10: when the write-mode server handles its n-th successful receive
\* completion, the immediate value decodes to the length of the n-th
\* message the client wrote and the buffer starts with exactly that
\* message, whatever the client has done since.
C10_WriteRoundTrip ==
    (mode = "MODE_WRITE" /\ hist["server"].n_obs > 0) =>
        LET m == hist["client"].written[hist["server"].n_obs]
            o == hist["server"].obs
        IN  /\ o.len = Len(m)
            /\ SubSeq(o.data, 1, Len(m)) = m

\* The read of hist["client"].rd has been completed with success.
ReadCompleted ==
    /\ mode = "MODE_READ"
    /\ hist["client"].rd.made
    /\ hist["client"].rd.got # <<>>

\* The request of the read client's last rd_post_read, while it is posted.
ReadPostedAsAsked ==
    (mode = "MODE_READ" /\ sq["client"] # <<>>) =>
        LET rd == hist["client"].rd
            w == sq["client"][1]
        IN  /\ Len(sq["client"]) = 1
            /\ w.opcode = "IBV_WR_RDMA_READ"
            /\ w.length = (rd.end - rd.start) + 1
            /\ w.remote_addr = BufAddr("server") + rd.start
            /\ w.rkey = Rkey("server")
            /\ 0 <= rd.start /\ rd.start <= rd.end /\ rd.end < MAX_BUFFER_SIZE

\* C11 as stated: for every valid (start, end) the read client posts one
\* read of end - start + 1 bytes at the server's base address plus start,
\* and after its completion the first end - start + 1 bytes of the client's
\* buffer equal bytes start..end of the server's buffer (as they were when
\* the read was posted, or as they are when the completion is polled).
C11_ReadRange ==
    /\ ReadPostedAsAsked
    /\ ReadCompleted =>
          \/ hist["client"].rd.got = hist["client"].rd.at_post
          \/ hist["client"].rd.got = hist["client"].rd.at_done

\* C11, amended: the same for a read posted when the server has stored its
\* text; the bytes read are then bytes start..end of the server's buffer,
\* which no longer changes.
C11_ReadRangeOfStoredText ==
    /\ ReadPostedAsAsked
    /\ (ReadCompleted /\ hist["client"].rd.stored) =>
          /\ hist["client"].rd.got = hist["client"].rd.at_post
          /\ hist["client"].rd.got = hist["client"].rd.at_done
          /\ hist["client"].rd.got =
                SubSeq(buf["server"], hist["client"].rd.start + 1,
                       hist["client"].rd.end + 1)
          /\ hist["client"].rd.got =
                SubSeq(buf["client"], 1,
                       (hist["client"].rd.end - hist["client"].rd.start) + 1)

\* A completed read of a range that starts inside the stored text, past
\* its first cell, and spans more than one packet.
C11_Witness ==
    /\ ReadCompleted
    /\ hist["client"].rd.stored
    /\ hist["client"].rd.start > 0
    /\ hist["client"].rd.end > hist["client"].rd.start
    /\ hist["client"].rd.got[1] # Uninit

\* C13: the lambda client that has parsed the result of its request (the
\* example input, the uppercasing function process_data) has status 0,
\* the output_size the function reported and exactly the bytes the
\* function produced, and returns that status.
C13_LambdaRoundTrip ==
    (mode = "MODE_LAMBDA" /\ loc["client"].result # Uninit) =>
        /\ loc["client"].result = ResultCell(0, InputSize, "UPPERCASED")
        /\ exit_code["client"] = "0"

\* The two regions of setup_lambda_regions as ranges of addresses.
InputRegionInBuffer(r) ==
    InRegistered(r, loc[r].regions.input_region, LAMBDA_MAX_INPUT_SIZE)

OutputRegionInBuffer(r) ==
    InRegistered(r, loc[r].regions.output_region, LAMBDA_MAX_OUTPUT_SIZE)

RegionsDisjoint(r) ==
    \/ loc[r].regions.input_region + LAMBDA_MAX_INPUT_SIZE <= loc[r].regions.output_region
    \/ loc[r].regions.output_region + LAMBDA_MAX_OUTPUT_SIZE <= loc[r].regions.input_region

\* C20: in a lambda session, on the server and on the client, the input
\* region and the output region both lie inside the registered buffer
\* [buf, buf + MAX_BUFFER_SIZE) and do not overlap.
C20_RegionsInsideBuffer ==
    \A r \in Roles :
        loc[r].regions.set =>
            /\ InputRegionInBuffer(r)
            /\ OutputRegionInBuffer(r)
            /\ RegionsDisjoint(r)

\* The client is in setup_socket's retry loop.
InConnectLoop == pc["client"] \in {"connect", "connect_sleep"}

\* The client died of "Failed to connect after multiple attempts".
ConnectGivenUp ==
    /\ pc["client"] = "exited"
    /\ ~hist["client"].signal.caught
    /\ loc["client"].sock.attempts > 0

\* The tallies of the retry loop at every moment: before a connect call
\* every earlier call was followed by one sleep, during a sleep all but the
\* last one were, and the loop is given up after three calls and two sleeps.
ConnectTallies ==
    LET s == loc["client"].sock
    IN  /\ s.attempts <= RetryCount
        /\ ~s.connected
        /\ pc["client"] = "connect" =>
              s.attempts < RetryCount /\ s.slept = s.attempts
        /\ pc["client"] = "connect_sleep" =>
              s.attempts < RetryCount /\ s.slept = s.attempts - 1
        /\ ConnectGivenUp =>
              /\ s.attempts = RetryCount
              /\ s.slept = RetryCount - 1
              /\ exit_code["client"] = "1"
        /\ ~(InConnectLoop \/ pc["client"] = "exited") => s = NoSock

\* The steps of the retry loop, a signal apart: a connect call that
\* succeeds ends the loop for good, one that fails is followed by a sleep
\* unless it was the third, and the third failure, and only it, is fatal.
ConnectStep ==
    LET s == loc["client"].sock
        failed ==
            /\ pc["client"] = "connect"
            /\ pc'["client"] \notin {"connect", "exchange_first"}
    IN  \/ hist'["client"].signal.caught
        \/ /\ (pc["client"] = "connect" /\ pc'["client"] = "connect_sleep") =>
                  loc'["client"].sock.attempts = s.attempts + 1
           /\ (pc["client"] = "connect" /\ pc'["client"] = "exited") <=>
                  (failed /\ s.attempts = RetryCount - 1)
           /\ (pc["client"] = "connect_sleep" /\ pc'["client"] # "connect_sleep") =>
                  /\ pc'["client"] = "connect"
                  /\ loc'["client"].sock.slept = s.slept + 1
           /\ ~InConnectLoop /\ pc["client"] # "setup_socket" =>
                  pc'["client"] \notin {"connect", "connect_sleep"}

Held(config) == SeqToSet(cleanup_resources(config).rel)

\* C16: when SIGINT or SIGTERM arrives after a session's resources were
\* initialised, every resource of that session is released before the
\* process exits.
C16_SignalTearsDown ==
    \A r \in Roles :
        hist[r].signal.caught =>
            Held(hist[r].signal.session) \subseteq SeqToSet(hist[r].signal.released)

\* The work requests of r's session that were posted and whose completion
\* no poll has taken yet: those in the send queue, the receives posted, and
\* the completions waiting in the completion queue.
Outstanding(r) == Len(sq[r]) + rq[r] + Len(cq[r])

\* C17: in every mode and role, a session never has more than one work
\* request posted whose completion has not been polled.
C17_OneOutstanding == \A r \in Roles : Outstanding(r) <= 1

\* Both sessions with a work request outstanding: the lambda client's
\* write completed and not yet polled, the server's receive still posted.
C17_Witness ==
    /\ mode = "MODE_LAMBDA"
    /\ Len(cq["client"]) = 1
    /\ rq["server"] = 1
    /\ \A r \in Roles : Outstanding(r) = 1

\* C19: in every mode the access flags connect_qps sets on the queue pair
\* in its first transition are the flags init_resources registered the
\* session's buffer with.
C19_QpAccessMatchesMr ==
    \A r \in Roles :
        qp[r].state \in {"INIT", "RTR", "RTS"} => qp[r].access = mr_access[r]

\* The record the client sent over the socket of the lambda session, as the
\* server read it.
HandshakeRecord == loc["server"].remote_qp_info

\* The client's write of metadata is posted: its buffer starts with the
\* metadata and the return-address record.
MetaWritePosted ==
    /\ mode = "MODE_LAMBDA"
    /\ pc["client"] = "lambda_c_wait_meta"

\* The server's write of the result is posted, to the record it copied out
\* of its buffer with the metadata.
ResultWritePosted ==
    /\ mode = "MODE_LAMBDA"
    /\ pc["server"] = "lambda_wait_result"

\* C21: in a lambda session the return-address record the client sends
\* with the metadata, and the record the server writes the result to, have
\* the values of the record the client sent in the handshake.
C21_OneAddressRecord ==
    /\ MetaWritePosted => buf["client"][1][3] = HandshakeRecord
    /\ ResultWritePosted => loc["server"].client_info = HandshakeRecord

\* The first half alone.
C21_SentRecordIsHandshakeRecord ==
    MetaWritePosted => buf["client"][1][3] = HandshakeRecord

\* C22: a process that has ended has ended with code 0 or with code 1, and
\* with code 1 when resource initialisation, the handshake, a queue-pair
\* transition, a post or a completion failed.
C22_ExitZeroOrOne == \A r \in Roles : exit_code[r] \in {"none", "0", "1"}

\* ------------------------------------------------- order of the lambda loops

\* s is a prefix of t.
IsPrefix(s, t) == Len(s) <= Len(t) /\ SubSeq(t, 1, Len(s)) = s

\* s repeated n times.
RECURSIVE Repeat(_, _)
Repeat(s, n) == IF n = 0 THEN <<>> ELSE s \o Repeat(s, n - 1)

\* C23: for each request the lambda server receives the metadata, receives
\* the code and copies it, receives the input, executes and writes the
\* result, in this order, each step after the completion of the one before
\* was awaited; the receive of the next request's metadata is posted after
\* the result write's completion was awaited.
C23_ServerStepsInOrder ==
    IsPrefix(hist["server"].steps, Repeat(ServerRequestOrder, MaxRequests + 1))

\* The server has written a result, awaited its completion and posted the
\* receive of the next request's metadata.
C23_NextRequestReceivePosted ==
    /\ mode = "MODE_LAMBDA"
    /\ Len(hist["server"].steps) = Len(ServerRequestOrder) + 1
    /\ pc["server"] = "lambda_wait_meta"

\* The steps of execute_lambda, in the order the specification gives.
ClientRequestOrder ==
    <<"write_meta", "wait", "write_code", "wait", "write_input", "wait",
      "post_receive", "wait", "parse">>

\* C24: the lambda client posts the metadata (with its own address record),
\* the code and the input in this order, each after the completion of the
\* write before was awaited, posts its receive after the third write has
\* completed, and parses the result after that receive has completed.
C24_ClientStepsInOrder ==
    /\ IsPrefix(hist["client"].steps, ClientRequestOrder)
    /\ hist["client"].steps = <<"write_meta">> =>
           buf["client"][1] = MetaCell(Meta(get_function_size, InputSize, 0),
                                       LocalQpInfo("client"))

\* The client has gone through the whole request and parsed a result.
C24_ResultParsed ==
    /\ mode = "MODE_LAMBDA"
    /\ hist["client"].steps = ClientRequestOrder
    /\ loc["client"].result # Uninit

\* -------------------------------------------- the phases of a lambda request

\* The server has copied the metadata (the code) of the first request.
MetaCopied == Len(hist["server"].steps) >= 3

CodeCopied == Len(hist["server"].steps) >= 6

\* What the server copied in step 1 is what the client wrote in its
\* metadata write.
C25_MetaPhaseBytes ==
    (mode = "MODE_LAMBDA" /\ MetaCopied) =>
        /\ loc["server"].meta = Meta(get_function_size, InputSize, 0)
        /\ loc["server"].client_info = LocalQpInfo("client")

\* What the server copied in step 2 is the code the client wrote in its code
\* write.
C25_CodePhaseBytes ==
    (mode = "MODE_LAMBDA" /\ CodeCopied) =>
        SubSeq(loc["server"].code, 1, get_function_size)
            = SubSeq(CodeCells, 1, get_function_size)

\* C25: in every interleaving the bytes the server copies out of its buffer
\* for a phase (metadata and address record, then code) are the bytes the
\* client wrote in that phase; the client's next write cannot change the
\* buffer before the server has read it.
C25_PhaseBytesAreThePhasesOwn == C25_MetaPhaseBytes /\ C25_CodePhaseBytes

\* The result writes the lambda server has posted and the wire has not yet
\* taken.
ResultWrites ==
    IF mode = "MODE_LAMBDA"
    THEN {sq["server"][i] : i \in 1 .. Len(sq["server"])}
    ELSE {}

\* The record the client put behind the metadata of its request.
RequestRecord == LocalQpInfo("client")

\* C26: the lambda server writes each result to the address and remote key
\* of the address record that arrived with the metadata of that request.
C26_ResultGoesToRequestRecord ==
    \A w \in ResultWrites :
        /\ w.remote_addr = RequestRecord.addr
        /\ w.rkey = RequestRecord.rkey

\* The weaker statement: the result goes to the record the server copied out
\* of its buffer in step 1 of that request.
C26_ResultGoesToCopiedRecord ==
    \A w \in ResultWrites :
        /\ MetaCopied
        /\ w.remote_addr = loc["server"].client_info.addr
        /\ w.rkey = loc["server"].client_info.rkey

\* ------------------------------------------------ sizes in a lambda request

\* The server has built a result record.
ResultBuilt == mode = "MODE_LAMBDA" /\ loc["server"].result # Uninit

\* C27: for every output_size the function reports, the number of output
\* bytes the server copies into the result record is the smaller of
\* output_size and the buffer size less the two fields in front, so the
\* record never exceeds the buffer.
C27_OutputTruncatedToFit ==
    ResultBuilt =>
        /\ loc["server"].bytes_to_copy
               = Min(loc["server"].result[3], MAX_BUFFER_SIZE - data_offset)
        /\ data_offset + loc["server"].bytes_to_copy <= MAX_BUFFER_SIZE

\* A result whose output did not fit: fewer bytes copied than reported.
C27_Truncated ==
    /\ ResultBuilt
    /\ loc["server"].bytes_to_copy < loc["server"].result[3]

\* The client has read a result record out of its buffer.
ResultParsed == mode = "MODE_LAMBDA" /\ loc["client"].result # Uninit

\* C28: whatever output_size the result record carries, the client copies
\* out of its buffer at most the bytes behind the two fields, and never
\* more than the caller's output buffer holds.
C28_ClientCopyBounded ==
    ResultParsed =>
        /\ OutputCopied(loc["client"].result) <= MAX_BUFFER_SIZE - data_offset
        /\ OutputCopied(loc["client"].result) <= OutputCapacity

\* The first half alone: the copy stays inside the client's buffer.
C28_ClientCopyInsideBuffer ==
    ResultParsed =>
        OutputCopied(loc["client"].result) <= MAX_BUFFER_SIZE - data_offset

\* C29: every request the server accepts has a code_size of at most
\* MAX_BUFFER_SIZE, so the copy into the code region reads only bytes of the
\* registered buffer.
C29_CodeCopyInsideBuffer ==
    (mode = "MODE_LAMBDA" /\ pc["server"] = "lambda_copy_code") =>
        /\ loc["server"].meta.code_size <= MAX_BUFFER_SIZE
        /\ InRegistered("server", BufAddr("server"), loc["server"].meta.code_size)

\* C30: the server invokes the received function only with an input_size of
\* at most MAX_BUFFER_SIZE.
C30_InputSizeBounded ==
    \A m \in hist["server"].invoked : m.input_size <= MAX_BUFFER_SIZE

\* ------------------------------------------------ queue-pair state machine

\* The step leaves r in its session (RunDriver starts the driver's session,
\* with a queue pair of its own).
SameSession(r) == loc'[r].session = loc[r].session

\* The program's ibv_modify_qp calls on r's queue pair go on by one, to the
\* next state of the fixed order.
NextTransition(r) ==
    LET n == Len(qp[r].transitions)
    IN  /\ n < Len(AllTransitions)
        /\ qp'[r].transitions = Append(qp[r].transitions, AllTransitions[n + 1])
        /\ qp'[r].state = AllTransitions[n + 1]

\* r is in one of the three transitions and leaves it without having made it.
TransitionFailed(r) ==
    /\ pc[r] \in {"modify_qp_to_init", "modify_qp_to_rtr", "modify_qp_to_rts"}
    /\ pc'[r] # pc[r]
    /\ qp'[r] = qp[r]
    /\ ~hist'[r].signal.caught

\* Work requests posted by r.
Posted(r) == Len(sq[r]) + rq[r]

C31_Step(r) ==
    /\ (SameSession(r) /\ qp'[r] # qp[r]) =>
           \/ NextTransition(r)
           \/ /\ qp'[r].state = "ERR"
              /\ qp'[r].transitions = qp[r].transitions
    /\ TransitionFailed(r) => pc'[r] = "exited" /\ exit_code'[r] = "1"
    /\ pc[r] = "exited" =>
           /\ pc'[r] = "exited"
           /\ qp'[r].transitions = qp[r].transitions
           /\ Posted(r)' <= Posted(r)
    /\ Posted(r)' > Posted(r) => qp[r].transitions = AllTransitions

\* C31: a session's queue pair is taken through Reset->Init, Init->RTR,
\* RTR->RTS, each once and in this order, never backwards (the device alone
\* can move it on to the error state); a failed transition ends the process,
\* and nothing is done with the queue pair afterwards; no work request is
\* posted before the three transitions are made.
C31_TransitionsInOrder == [][\A r \in Roles : C31_Step(r)]_vars

\* A process ended by a failed transition to RTR.
C31_FailedAtRtr ==
    \E r \in Roles :
        /\ pc[r] = "exited"
        /\ exit_code[r] = "1"
        /\ qp[r].transitions = <<"INIT">>
        /\ ~hist[r].signal.caught
        /\ loc[r].remote_qp_info # NoQpInfo

\* ------------------------------------------------------ failures of setup

\* C32: when a handshake read or write transfers fewer bytes than the
\* record, on either role, the process ends with a fatal error, and no
\* transition of the queue pair is made with a partial record.
C32_ShortTransferFatal ==
    \A r \in Roles :
        /\ hist[r].short_transfer =>
               /\ pc[r] = "exited"
               /\ exit_code[r] = "1"
               /\ qp[r].transitions = <<>>
        /\ qp[r].transitions # <<>> =>
               loc[r].remote_qp_info = LocalQpInfo(Peer(r))

\* The server's read came back short after the client had written its
\* record, and the client's read came back short too.
C32_BothShort ==
    /\ hist["server"].short_transfer
    /\ hist["client"].short_transfer
    /\ chan["server"] # <<>>

\* The resources init_resources allocated and the process still holds.
HeldFromInit == {x \in live : x \in SeqToSet(init_call.alloc)}

\* C33: when connection setup fails after init_resources has succeeded,
\* every resource allocated by init_resources is released before the
\* process exits.
C33_SetupFailureReleasesAll == phase = "exited" => HeldFromInit = {}

\* ------------------------------------------------------------- read client

\* The read client takes a line of input in this step.
RdLineTaken ==
    /\ mode = "MODE_READ"
    /\ pc["client"] = "rd_fgets"
    /\ loc'["client"].n_in = loc["client"].n_in + 1

\* The pair of the line is a range inside the buffer.
InsideBuffer(line) ==
    /\ line.parsed
    /\ 0 <= line.start
    /\ line.start <= line.end
    /\ line.end < MAX_BUFFER_SIZE

\* C34: the read client posts a read for a pair (start, end) with
\* 0 <= start <= end < MAX_BUFFER_SIZE and for no other input; otherwise
\* nothing is posted, no completion is awaited and the next line is taken.
C34_ReadsOnlyValidRanges ==
    [][RdLineTaken =>
         LET line == loc'["client"].line
         IN  IF InsideBuffer(line)
             THEN /\ Len(sq'["client"]) = Len(sq["client"]) + 1
                  /\ sq'["client"][Len(sq'["client"])].opcode = "IBV_WR_RDMA_READ"
                  /\ sq'["client"][Len(sq'["client"])].length
                         = (line.end - line.start) + 1
                  /\ pc'["client"] = "rd_wait"
             ELSE /\ UNCHANGED <<sq, rq, cq, buf>>
                  /\ pc'["client"] = "rd_fgets"]_vars

\* A line with a pair behind the buffer was taken, and the client is back
\* at its input with nothing posted.
C34_InvalidSkipped ==
    /\ mode = "MODE_READ"
    /\ pc["client"] = "rd_fgets"
    /\ loc["client"].line.parsed
    /\ loc["client"].line.end = MAX_BUFFER_SIZE
    /\ loc["client"].n_in = 1
    /\ sq["client"] = <<>>

\* The read client posts a read in this step.
RdReadPosted ==
    /\ mode = "MODE_READ"
    /\ Len(sq'["client"]) > Len(sq["client"])

\* C35: rd_post_read leaves the peer's record as the handshake gave it, for
\* every offset and length, so that each read targets the base address plus
\* its own offset and offsets never add up.
C35_RecordRestored ==
    [][/\ mode = "MODE_READ" =>
              loc'["client"].remote_info = loc["client"].remote_info
       /\ RdReadPosted =>
              LET w == sq'["client"][Len(sq'["client"])]
              IN  /\ w.remote_addr
                         = LocalQpInfo("server").addr + loc'["client"].line.start
                  /\ w.rkey = LocalQpInfo("server").rkey
                  /\ loc'["client"].remote_info = LocalQpInfo("server")]_vars

\* A read at an offset is posted after an earlier read has completed.
C35_SecondReadAtOffset ==
    /\ mode = "MODE_READ"
    /\ loc["client"].n_in >= 2
    /\ loc["client"].wc.opcode = "IBV_WC_RDMA_READ"
    /\ loc["client"].line.start > 0
    /\ sq["client"] # <<>>
    /\ sq["client"][1].remote_addr > LocalQpInfo("server").addr

\* r posts a work request in this step, to its send or its receive queue.
PostsWorkRequest(r) ==
    \/ Len(sq'[r]) > Len(sq[r])
    \/ rq'[r] > rq[r]

\* The labels of the second setup, from the driver's init_resources to its
\* third transition.
SetupLabels ==
    {"init_resources", "setup_socket", "connect", "connect_sleep", "accept",
     "exchange_first", "exchange_second", "modify_qp_to_init",
     "modify_qp_to_rtr", "modify_qp_to_rts", "run_driver"}

\* C36: no data work request is posted on the session run_server or
\* run_client creates; every one is posted on the driver's session, after
\* the driver's own init_resources and handshake, and the first session is
\* torn down only when the driver has returned.
C36_DataOnDriverSession ==
    [][\A r \in Roles :
        /\ PostsWorkRequest(r) =>
              /\ loc[r].session = "driver"
              /\ pc[r] \notin SetupLabels
              /\ loc[r].remote_qp_info # NoQpInfo
        /\ loc'[r].session = "run" => sq'[r] = <<>> /\ rq'[r] = 0
        /\ hist'[r].teardown # hist[r].teardown =>
              /\ hist[r].teardown = <<>>
              /\ loc[r].session = "driver"
              /\ pc'[r] = "exited"
              /\ hist'[r].teardown[Len(hist'[r].teardown)] = "run"]_vars

\* Both processes have posted on their drivers' sessions, the drivers have
\* returned and the run functions have torn their sessions down.
C36_BothTornDown ==
    /\ \A r \in Roles :
          /\ pc[r] = "exited"
          /\ hist[r].teardown = <<"driver", "run">>
    /\ loc["client"].n_in >= 1
    /\ loc["client"].wc # NoWc

\* r has set up the session of its driver and is at the driver's loop.
Established(r) ==
    /\ loc[r].session = "driver"
    /\ pc[r] = DriverEntry(mode, r)

\* The client has left the retry loop of its second setup_socket without a
\* connection.
ConnectExhausted ==
    /\ pc["client"] = "exited"
    /\ loc["client"].session = "driver"
    /\ ~loc["client"].sock.connected
    /\ loc["client"].sock.attempts = RetryCount

\* C37: with the server started first and no failing call, both sessions
\* of a run are eventually established: the client's connect for the
\* second session never uses up its three attempts.
C37_BothSessionsEstablished ==
    /\ []~ConnectExhausted
    /\ <>(\A r \in Roles : Established(r))

\* The places in the releases made so far at which a resource of kind k
\* was released.
ReleasedAt(k) == {i \in 1 .. Len(released) : released[i][1] = k}

\* setup_lambda_regions has run on the context and the session was then
\* torn down by cleanup_resources.
LambdaTornDown ==
    /\ CleanupMade
    /\ phase = "connected"
    /\ \E x \in live \cup SeqToSet(released) : x[1] = "code_mr"

\* C38: when a lambda session is torn down, code_mr has been deregistered
\* before the PD it belongs to is deallocated, and the code region itself
\* has been released.
C38_CodeRegionReleased ==
    LambdaTornDown =>
        /\ \A x \in live : x[1] \notin LambdaRegionKinds
        /\ \E i \in ReleasedAt("code_mr") :
              \A j \in ReleasedAt("pd") : i < j
        /\ ReleasedAt("code_region") # {}

\* lambda_run_server has returned to run_server, which has returned to
\* main.
LambdaServerReturned ==
    /\ mode = "MODE_LAMBDA"
    /\ pc["server"] = "exited"
    /\ hist["server"].teardown = <<"driver", "run">>

====
